---- MODULE Spec2Model ----
(***************************************************************************)
(* A model of the xgpu binding generator (codegen/generate.ts and its      *)
(* helpers in codegen/stringmanip.ts, codegen/pygen.ts, codegen/patches.ts)*)
(* and of the Python runtime classes the generator emits.                  *)
(*                                                                         *)
(* Text is modelled as a sequence of one-character strings, so that the    *)
(* string operations of the generator (startsWith, endsWith, slice,        *)
(* replaceAll, toLowerCase) are computed, not assumed.  Header lines are   *)
(* modelled as sequences of whitespace-separated tokens.                   *)
(***************************************************************************)
EXTENDS Integers, Sequences, FiniteSets, TLC

VARIABLES
    \* ---- lexical cleanup (cleanHeader / discardProcs) ----
    cLines,     \* the input lines (each a sequence of tokens)
    cPos,       \* state.pos, 1-based: index of the next line to look at
    cFrags,     \* frags: the lines kept so far
    cStatus,    \* "running" | "returned" | "thrown"
    cOut,       \* the returned text (tokens and "\n") once cStatus = "returned"
    \* ---- the generator run (ApiInfo and the main script) ----
    header,     \* the declarations of the input header, in file order
    pc,         \* the statement of parse() / the main script that runs next
    pos,        \* 1-based position in the loop that pc names
    types,      \* ApiInfo.types: insertion-ordered map, cName -> type descriptor
    wrappers,   \* ApiInfo.wrappers: insertion-ordered map, key -> Emittable
    looseFuncs, \* ApiInfo.looseFuncs
    pyFrags,    \* pyFrags: what the main script has emitted so far
    error,      \* the exception that ended the run, if any
    files,      \* the output files written by writeFileSync
    lookups,    \* history: the getType calls of the last step, <<name, result>>
    creates,    \* history: the keys for which a wrapper factory was invoked
    sRawFields, \* _addStruct: the parsed entries of the struct body
    sFields,    \* _addStruct: the field units built so far
    fEnum,      \* Python: the IntEnum class of the flags class
    fList,      \* Python: the list of members the flags value is made from
    fValue,     \* Python: self.value of the flags value
    fIter,      \* Python: what iterating the flags value has yielded
    fPc,        \* Python: where the script stands
    \* ---- the emitted ChainedStruct class, run on the Python side ----
    chList,     \* self.chain: the list of Chainable structs (their addresses)
    chCdata,    \* self._cdata of the ChainedStruct
    chNext,     \* the _chain.next pointer of every Chainable struct
    chIdx,      \* idx of the for loop over next_ptrs, 1-based
    chPc,       \* where __init__ stands
    \* ---- convertEnumValuesToConstants on values up to 2^32 - 1 ----
    xEntries,   \* entries: the parsed entries of one enum body
    xPos,       \* the entry of the for loop, 1-based
    xRet,       \* ret
    xPc,        \* where the function stands
    \* ---- the emitted CBMap and callback wrapper class, on the Python side ----
    cbCallbacks, \* self.callbacks of the CBMap: a dict, index -> callback
    cbIndex,     \* self.index of the CBMap
    cbObjs,      \* self.index of every callback wrapper object made so far
    cbRemoved,   \* history: the indices that remove() was called with
    cbCalled,    \* history: the last run of the raw callback, [idx, cb]
    \* ---- one object of an emitted opaque handle class, on the Python side ----
    hCdata,      \* self._cdata: NULL or the address of the handle
    hGc,         \* the cdata that ffi.gc returned: "none", "owned", "disowned", "collected"
    hReleases,   \* history: the calls of lib.<release> on the handle
    hRefs,       \* history: the calls of lib.<reference> on the handle
    hTrace,      \* history: the methods called on the object, in order
    hRaised      \* the last method call raised

cleanVars == <<cLines, cPos, cFrags, cStatus, cOut>>

apiVars == <<header, pc, pos, types, wrappers, looseFuncs, pyFrags, error, files,
             lookups, creates>>

structVars == <<sRawFields, sFields>>

flagsVars == <<fEnum, fList, fValue, fIter, fPc>>

chainVars == <<chList, chCdata, chNext, chIdx, chPc>>

wideVars == <<xEntries, xPos, xRet, xPc>>

cbVars == <<cbCallbacks, cbIndex, cbObjs, cbRemoved, cbCalled>>

handleVars == <<hCdata, hGc, hReleases, hRefs, hTrace, hRaised>>

vars == <<cLines, cPos, cFrags, cStatus, cOut,
          header, pc, pos, types, wrappers, looseFuncs, pyFrags, error, files,
          lookups, creates, sRawFields, sFields,
          fEnum, fList, fValue, fIter, fPc,
          chList, chCdata, chNext, chIdx, chPc,
          xEntries, xPos, xRet, xPc,
          cbCallbacks, cbIndex, cbObjs, cbRemoved, cbCalled,
          hCdata, hGc, hReleases, hRefs, hTrace, hRaised>>

\* what the run of the generator, and what the lexical cleanup, leave alone
outsideApi == <<cleanVars, structVars, flagsVars, chainVars, wideVars, cbVars, handleVars>>

outsideClean == <<apiVars, structVars, flagsVars, chainVars, wideVars, cbVars, handleVars>>

outsideStruct == <<cleanVars, flagsVars, chainVars, wideVars, cbVars, handleVars>>

outsideFlags == <<cleanVars, apiVars, structVars, chainVars, wideVars, cbVars, handleVars>>

outsideChain == <<cleanVars, apiVars, structVars, flagsVars, wideVars, cbVars, handleVars>>

outsideWide == <<cleanVars, apiVars, structVars, flagsVars, chainVars, cbVars, handleVars>>

outsideCB == <<cleanVars, apiVars, structVars, flagsVars, chainVars, wideVars, handleVars>>

outsideHandle == <<cleanVars, apiVars, structVars, flagsVars, chainVars, wideVars, cbVars>>

(***************************************************************************)
(* Bounds of the model.                                                    *)
(***************************************************************************)
MaxLines == 4

MaxFields == 3

MaxEntries == 3

MaxMerges == 2

MaxFlags == 3

MaxLinks == 3

(***************************************************************************)
(* Generic helpers on sequences (JavaScript string / array primitives).    *)
(***************************************************************************)
Range(s) == { s[i] : i \in 1..Len(s) }

\* s.slice(a) with a 0-based: drop the first a elements
Drop(s, a) == IF a >= Len(s) THEN <<>> ELSE SubSeq(s, a + 1, Len(s))

\* s.slice(0, n)
Take(s, n) == IF n >= Len(s) THEN s ELSE SubSeq(s, 1, n)

StartsWith(s, p) == Len(p) <= Len(s) /\ SubSeq(s, 1, Len(p)) = p

EndsWith(s, p) == Len(p) <= Len(s) /\ SubSeq(s, Len(s) - Len(p) + 1, Len(s)) = p

\* all sequences over S of length 0..n
SeqsUpTo(S, n) == UNION { [1..k -> S] : k \in 0..n }

(***************************************************************************)
(* Text literals of the generator and of the modelled header, character by *)
(* character.                                                              *)
(***************************************************************************)
S_WGPU == <<"W", "G", "P", "U">>
S_wgpu == <<"w", "g", "p", "u">>
S_WGPUBuffer == <<"W", "G", "P", "U", "B", "u", "f", "f", "e", "r">>
S_WGPUQueue == <<"W", "G", "P", "U", "Q", "u", "e", "u", "e">>
S_WGPUBufferDescriptor == <<"W", "G", "P", "U", "B", "u", "f", "f", "e", "r", "D", "e", "s", "c", "r", "i", "p", "t", "o", "r">>
S_WGPUQueueDescriptor == <<"W", "G", "P", "U", "Q", "u", "e", "u", "e", "D", "e", "s", "c", "r", "i", "p", "t", "o", "r">>
S_wgpuBufferReference == <<"w", "g", "p", "u", "B", "u", "f", "f", "e", "r", "R", "e", "f", "e", "r", "e", "n", "c", "e">>
S_wgpuBufferRelease == <<"w", "g", "p", "u", "B", "u", "f", "f", "e", "r", "R", "e", "l", "e", "a", "s", "e">>
S_wgpuQueueReference == <<"w", "g", "p", "u", "Q", "u", "e", "u", "e", "R", "e", "f", "e", "r", "e", "n", "c", "e">>
S_wgpuQueueRelease == <<"w", "g", "p", "u", "Q", "u", "e", "u", "e", "R", "e", "l", "e", "a", "s", "e">>
S_wgpuQueueSubmit == <<"w", "g", "p", "u", "Q", "u", "e", "u", "e", "S", "u", "b", "m", "i", "t">>
S_wgpuGetVersion == <<"w", "g", "p", "u", "G", "e", "t", "V", "e", "r", "s", "i", "o", "n">>
S_wgpuCreateBuffer == <<"w", "g", "p", "u", "C", "r", "e", "a", "t", "e", "B", "u", "f", "f", "e", "r">>
S_release == <<"r", "e", "l", "e", "a", "s", "e">>
S_reference == <<"r", "e", "f", "e", "r", "e", "n", "c", "e">>
S_Reference == <<"R", "e", "f", "e", "r", "e", "n", "c", "e">>
S_Release == <<"R", "e", "l", "e", "a", "s", "e">>
S_Count == <<"C", "o", "u", "n", "t">>
S_size_t == <<"s", "i", "z", "e", "_", "t">>
S_uint32_t == <<"u", "i", "n", "t", "3", "2", "_", "t">>
S_uint64_t == <<"u", "i", "n", "t", "6", "4", "_", "t">>
S_uint16_t == <<"u", "i", "n", "t", "1", "6", "_", "t">>
S_uint8_t == <<"u", "i", "n", "t", "8", "_", "t">>
S_int64_t == <<"i", "n", "t", "6", "4", "_", "t">>
S_int32_t == <<"i", "n", "t", "3", "2", "_", "t">>
S_int16_t == <<"i", "n", "t", "1", "6", "_", "t">>
S_int8_t == <<"i", "n", "t", "8", "_", "t">>
S_float == <<"f", "l", "o", "a", "t">>
S_double == <<"d", "o", "u", "b", "l", "e">>
S_WGPUBool == <<"W", "G", "P", "U", "B", "o", "o", "l">>
S_WGPUSubmissionIndex == <<"W", "G", "P", "U", "S", "u", "b", "m", "i", "s", "s", "i", "o", "n", "I", "n", "d", "e", "x">>
S_UNKNOWN == <<"U", "N", "K", "N", "O", "W", "N">>
S_unknown == <<"u", "n", "k", "n", "o", "w", "n">>
S_void == <<"v", "o", "i", "d">>
S_WGPUProc == <<"W", "G", "P", "U", "P", "r", "o", "c">>
S_char == <<"c", "h", "a", "r">>
S_int == <<"i", "n", "t">>
S_bool == <<"b", "o", "o", "l">>
S_VOID == <<"V", "O", "I", "D">>
S_VoidPtr == <<"V", "o", "i", "d", "P", "t", "r">>
S_str == <<"s", "t", "r">>
S_const == <<"c", "o", "n", "s", "t">>
S_struct == <<"s", "t", "r", "u", "c", "t">>
S_WGPU_NULLABLE == <<"W", "G", "P", "U", "_", "N", "U", "L", "L", "A", "B", "L", "E">>
S_WGPUChainedStruct == <<"W", "G", "P", "U", "C", "h", "a", "i", "n", "e", "d", "S", "t", "r", "u", "c", "t">>
S_WGPUChainedStructOut == <<"W", "G", "P", "U", "C", "h", "a", "i", "n", "e", "d", "S", "t", "r", "u", "c", "t", "O", "u", "t">>
S_callback == <<"c", "a", "l", "l", "b", "a", "c", "k">>
S_userdata == <<"u", "s", "e", "r", "d", "a", "t", "a">>
S_descriptor == <<"d", "e", "s", "c", "r", "i", "p", "t", "o", "r">>
S_config == <<"c", "o", "n", "f", "i", "g">>
S_Descriptor == <<"D", "e", "s", "c", "r", "i", "p", "t", "o", "r">>
S_Configuration == <<"C", "o", "n", "f", "i", "g", "u", "r", "a", "t", "i", "o", "n">>
S_buffer == <<"b", "u", "f", "f", "e", "r">>
S_queue == <<"q", "u", "e", "u", "e">>
S_commandCount == <<"c", "o", "m", "m", "a", "n", "d", "C", "o", "u", "n", "t">>
S_commands == <<"c", "o", "m", "m", "a", "n", "d", "s">>
S_entryCount == <<"e", "n", "t", "r", "y", "C", "o", "u", "n", "t">>
S_entries == <<"e", "n", "t", "r", "i", "e", "s">>
S_size == <<"s", "i", "z", "e">>
S_itemCount == <<"i", "t", "e", "m", "C", "o", "u", "n", "t">>
S_items == <<"i", "t", "e", "m", "s">>
S_bufferCount == <<"b", "u", "f", "f", "e", "r", "C", "o", "u", "n", "t">>
S_buffers == <<"b", "u", "f", "f", "e", "r", "s">>
S_List == <<"L", "i", "s", "t">>
S_next == <<"n", "e", "x", "t">>
S_sType == <<"s", "T", "y", "p", "e">>
S_FromDesc == <<"F", "r", "o", "m", "D", "e", "s", "c">>
S_chain == <<"c", "h", "a", "i", "n">>
S_wgpuAdapterEnumerateFeatures == <<"w", "g", "p", "u", "A", "d", "a", "p", "t", "e", "r", "E", "n", "u", "m", "e", "r", "a", "t", "e", "F", "e", "a", "t", "u", "r", "e", "s">>
S_wgpuDeviceEnumerateFeatures == <<"w", "g", "p", "u", "D", "e", "v", "i", "c", "e", "E", "n", "u", "m", "e", "r", "a", "t", "e", "F", "e", "a", "t", "u", "r", "e", "s">>
S_wrappedSubmissionIndex == <<"w", "r", "a", "p", "p", "e", "d", "S", "u", "b", "m", "i", "s", "s", "i", "o", "n", "I", "n", "d", "e", "x">>
S_nextInChain == <<"n", "e", "x", "t", "I", "n", "C", "h", "a", "i", "n">>
S_wgpuBufferDestroy == <<"w", "g", "p", "u", "B", "u", "f", "f", "e", "r", "D", "e", "s", "t", "r", "o", "y">>
S_wgpuPollEvents == <<"w", "g", "p", "u", "P", "o", "l", "l", "E", "v", "e", "n", "t", "s">>
S_Infinity == <<"I", "n", "f", "i", "n", "i", "t", "y">>
S_NaN == <<"N", "a", "N">>
E_I == <<"W", "G", "P", "U", "S", "T", "y", "p", "e", "_", "I", " ", "=", " ", "I", "n", "f", "i", "n", "i", "t", "y">>
E_Device_Extras == <<"W", "G", "P", "U", "S", "T", "y", "p", "e", "_", "D", "e", "v", "i", "c", "e", "_", "E", "x", "t", "r", "a", "s", " ", "=", " ", "0", "x", "0", "0", "0", "3", "0", "0", "0", "2">>
E_X == <<"W", "G", "P", "U", "S", "T", "y", "p", "e", "_", "X", " ", "=", " ", "0", "x", "1">>
E_Y == <<"W", "G", "P", "U", "S", "T", "y", "p", "e", "_", "Y", " ", "=", " ", "0", "x", "0", "0", "0", "0", "0", "0", "0", "2">>
E_XY == <<"W", "G", "P", "U", "S", "T", "y", "p", "e", "_", "X", "Y", " ", "=", " ", "4">>
E_Z == <<"W", "G", "P", "U", "S", "T", "y", "p", "e", "_", "Z", " ", "=", " ", "W", "G", "P", "U", "S", "T", "y", "p", "e", "_", "X", " ", "|", " ", "W", "G", "P", "U", "S", "T", "y", "p", "e", "_", "Y">>
E_W == <<"W", "G", "P", "U", "S", "T", "y", "p", "e", "_", "W", " ", "=", " ", "W", "G", "P", "U", "S", "T", "y", "p", "e", "_", "X", " ", "|", " ", "W", "G", "P", "U", "S", "T", "y", "p", "e", "_", "X", "Y">>
E_Force32 == <<"W", "G", "P", "U", "S", "T", "y", "p", "e", "_", "F", "o", "r", "c", "e", "3", "2", " ", "=", " ", "0", "x", "7", "F", "F", "F", "F", "F", "F", "F">>
E_B == <<"W", "G", "P", "U", "S", "T", "y", "p", "e", "_", "B">>
E_DeviceExtras == <<"W", "G", "P", "U", "S", "T", "y", "p", "e", "_", "D", "e", "v", "i", "c", "e", "E", "x", "t", "r", "a", "s", " ", "=", " ", "0", "x", "0", "0", "0", "3", "0", "0", "0", "1">>
E_NativeForce32 == <<"W", "G", "P", "U", "N", "a", "t", "i", "v", "e", "S", "T", "y", "p", "e", "_", "F", "o", "r", "c", "e", "3", "2", " ", "=", " ", "0", "x", "7", "F", "F", "F", "F", "F", "F", "F">>
S_WGPUSType == <<"W", "G", "P", "U", "S", "T", "y", "p", "e">>
S_WGPUNativeSType == <<"W", "G", "P", "U", "N", "a", "t", "i", "v", "e", "S", "T", "y", "p", "e">>
S_WGPUFeatureName == <<"W", "G", "P", "U", "F", "e", "a", "t", "u", "r", "e", "N", "a", "m", "e">>
S_WGPUNativeFeature == <<"W", "G", "P", "U", "N", "a", "t", "i", "v", "e", "F", "e", "a", "t", "u", "r", "e">>
S_Flags == <<"F", "l", "a", "g", "s">>
S_Flag == <<"F", "l", "a", "g">>
S_Callback == <<"C", "a", "l", "l", "b", "a", "c", "k">>
S_WGPUBufferCallback == <<"W", "G", "P", "U", "B", "u", "f", "f", "e", "r", "C", "a", "l", "l", "b", "a", "c", "k">>
S_cbwrap_prefix == <<"_", "c", "b", "w", "r", "a", "p", "_">>
S_Force32 == <<"F", "o", "r", "c", "e", "3", "2">>
S_Force32Entry == <<"_", "F", "o", "r", "c", "e", "3", "2">>
S_star == <<"*">>
S_underscore == <<"_">>
S_LIST_prefix == <<"_", "L", "I", "S", "T", "_">>

(***************************************************************************)
(* codegen/stringmanip.ts and codegen/pygen.ts.                            *)
(***************************************************************************)
UpperChars ==
    <<"A", "B", "C", "D", "E", "F", "G", "H", "I", "J", "K", "L", "M",
      "N", "O", "P", "Q", "R", "S", "T", "U", "V", "W", "X", "Y", "Z">>

LowerChars ==
    <<"a", "b", "c", "d", "e", "f", "g", "h", "i", "j", "k", "l", "m",
      "n", "o", "p", "q", "r", "s", "t", "u", "v", "w", "x", "y", "z">>

ToLowerChar(c) ==
    IF \E i \in DOMAIN UpperChars : UpperChars[i] = c
    THEN LowerChars[CHOOSE i \in DOMAIN UpperChars : UpperChars[i] = c]
    ELSE c

ToUpperChar(c) ==
    IF \E i \in DOMAIN LowerChars : LowerChars[i] = c
    THEN UpperChars[CHOOSE i \in DOMAIN LowerChars : LowerChars[i] = c]
    ELSE c

toLowerCase(s) == [i \in 1..Len(s) |-> ToLowerChar(s[i])]

removePrefixCaseInsensitive(s, prefix) ==
    IF StartsWith(toLowerCase(s), toLowerCase(prefix)) THEN Drop(s, Len(prefix)) ELSE s

\* removePrefix(s, prefixes): each prefix in turn is cut off when present
RECURSIVE removePrefix(_, _)
removePrefix(s, prefixes) ==
    IF prefixes = <<>> THEN s
    ELSE removePrefix(IF StartsWith(s, Head(prefixes)) THEN Drop(s, Len(Head(prefixes))) ELSE s,
                      Tail(prefixes))

\* cleanup(s, prefix) for an already trimmed s
cleanup(s, prefix) == removePrefix(s, <<prefix, S_underscore>>)

recase(ident, upperFirst) ==
    IF ident = <<>> THEN <<>>
    ELSE <<IF upperFirst THEN ToUpperChar(ident[1]) ELSE ToLowerChar(ident[1])>> \o Tail(ident)

toPyName(ident, isClass) == recase(removePrefix(ident, <<S_WGPU, S_wgpu>>), isClass)

\* sanitizeIdent: an identifier that does not start with a letter, or is None, gets "_"
IsLetter(c) ==
    \/ \E i \in DOMAIN UpperChars : UpperChars[i] = c
    \/ \E i \in DOMAIN LowerChars : LowerChars[i] = c

sanitizeIdent(ident) ==
    IF ident = <<>> \/ ~IsLetter(ident[1]) \/ ident = <<"N", "o", "n", "e">>
    THEN S_underscore \o ident
    ELSE ident

\* String.prototype.trim on a sequence whose blanks are " "
RECURSIVE TrimLeft(_)
TrimLeft(line) ==
    IF line # <<>> /\ Head(line) = " " THEN TrimLeft(Tail(line)) ELSE line

RECURSIVE TrimRight(_)
TrimRight(line) ==
    IF line # <<>> /\ line[Len(line)] = " "
    THEN TrimRight(SubSeq(line, 1, Len(line) - 1))
    ELSE line

\* rawline.trim()
Trim(line) == TrimRight(TrimLeft(line))

(***************************************************************************)
(* Insertion-ordered maps (JavaScript Map): a sequence of [key, val].      *)
(***************************************************************************)
MapHas(m, k) == \E i \in 1..Len(m) : m[i].key = k

MapIdx(m, k) == CHOOSE i \in 1..Len(m) : m[i].key = k

MapGet(m, k) == m[MapIdx(m, k)].val

\* Map.set: an existing key keeps its place, a new key goes last
MapSet(m, k, v) ==
    IF MapHas(m, k) THEN [m EXCEPT ![MapIdx(m, k)].val = v]
    ELSE Append(m, [key |-> k, val |-> v])

MapKeys(m) == { m[i].key : i \in 1..Len(m) }

(***************************************************************************)
(* Type descriptors (CType and its classes).  Every descriptor is a record *)
(* of the same shape; cls names the class that built it.                   *)
(***************************************************************************)
Descriptor(cls, kind, cName, pyName) ==
    [cls |-> cls, kind |-> kind, cName |-> cName, pyName |-> pyName,
     funcs |-> <<>>, fields |-> <<>>, noEmit |-> FALSE, values |-> <<>>, sanitized |-> <<>>,
     flagType |-> <<>>, etype |-> <<>>, argStr |-> <<>>, ret |-> <<>>]

prim(cName, pyName) == Descriptor("prim", "primitive", cName, pyName)

COpaque(cName, pyName) == Descriptor("COpaque", "opaque", cName, pyName)

CStruct(cName, pyName, fields, noEmit) ==
    [Descriptor("CStruct", "struct", cName, pyName) EXCEPT !.fields = fields, !.noEmit = noEmit]

\* What a FuncArg or a field unit holds of its ctype: the descriptor's identity.
\* (Its member functions and fields are read through the registry.)
Ref(d) == [cls |-> d.cls, kind |-> d.kind, cName |-> d.cName, pyName |-> d.pyName]

UNKNOWN_TYPE == prim(S_UNKNOWN, S_UNKNOWN)

SPECIAL_CLASSES == { S_WGPUChainedStruct, S_WGPUChainedStructOut }

FORCE_NULLABLE_ARGS == { S_wrappedSubmissionIndex }

PATCHED_FUNCTIONS == { S_wgpuAdapterEnumerateFeatures, S_wgpuDeviceEnumerateFeatures }

\* The registry as the ApiInfo constructor leaves it.
PRIMITIVES ==
    << <<S_uint64_t, S_int>>, <<S_uint32_t, S_int>>, <<S_uint16_t, S_int>>,
       <<S_uint8_t, S_int>>, <<S_int64_t, S_int>>, <<S_int32_t, S_int>>,
       <<S_int16_t, S_int>>, <<S_int8_t, S_int>>, <<S_float, S_float>>,
       <<S_double, S_float>>, <<S_size_t, S_int>>, <<S_WGPUBool, S_bool>>,
       <<S_WGPUSubmissionIndex, S_int>>, <<S_UNKNOWN, S_UNKNOWN>>,
       <<S_void, S_VOID>>, <<S_WGPUProc, S_VoidPtr>>, <<S_char, S_str>> >>

InitialTypes ==
    [i \in 1..Len(PRIMITIVES) |->
        [key |-> PRIMITIVES[i][1], val |-> prim(PRIMITIVES[i][1], PRIMITIVES[i][2])]]

(***************************************************************************)
(* ApiInfo.  Its methods are operators on `api`, the record of the fields  *)
(* a method can touch; a method returns the new api (and its result).      *)
(***************************************************************************)
\* A getType that registers the sentinel under every name it does not find
getTypeRegistering(api, t) ==
    IF MapHas(api.types, t)
    THEN [api |-> [api EXCEPT !.lookups = Append(@, <<t, Ref(MapGet(api.types, t))>>)],
          ret |-> MapGet(api.types, t)]
    ELSE [api |-> [api EXCEPT !.lookups = Append(@, <<t, Ref(UNKNOWN_TYPE)>>),
                              !.types = MapSet(@, t, UNKNOWN_TYPE)],
          ret |-> UNKNOWN_TYPE]

\* getType(t): the registered descriptor, or the UNKNOWN_TYPE sentinel
getType(api, t) ==
    LET ret == IF MapHas(api.types, t) THEN MapGet(api.types, t) ELSE UNKNOWN_TYPE
    IN  [api |-> [api EXCEPT !.lookups = Append(@, <<t, Ref(ret)>>)], ret |-> ret]

ListWrapper(ctype, serial) == [cls |-> "ListWrapper", ctype |-> Ref(ctype), serial |-> serial]

\* A createWrapper that runs create() and sets the key on every call
createWrapperAlways(api, name, ctype) ==
    [api EXCEPT !.wrappers = MapSet(@, name, ListWrapper(ctype, Len(api.creates) + 1)),
                !.creates = Append(@, name)]

\* createWrapperOnce(name, create): create() runs only for a key not yet present
createWrapperOnce(api, name, ctype) ==
    IF ~MapHas(api.wrappers, name)
    THEN [api EXCEPT !.wrappers = MapSet(@, name, ListWrapper(ctype, Len(api.creates) + 1)),
                     !.creates = Append(@, name)]
    ELSE api

listName(pyname) == toPyName(pyname \o S_List, TRUE)

getListWrapper(api, ctype) ==
    [api |-> createWrapperOnce(api, S_LIST_prefix \o ctype.cName, ctype),
     ret |-> listName(ctype.pyName)]

\* parseTypeRef(ref): ref.trim().split(" ") is the token sequence `parts`
RECURSIVE parseTypeParts(_, _)
parseTypeParts(parts, info) ==
    IF parts = <<>> THEN info
    ELSE LET part == Head(parts)
             next == IF part = S_WGPU_NULLABLE THEN [info EXCEPT !.nullable = TRUE]
                     ELSE IF part = S_const THEN [info EXCEPT !.constant = TRUE]
                     ELSE IF part = S_star THEN [info EXCEPT !.explicitPointer = TRUE]
                     ELSE IF part = S_struct THEN info
                     ELSE [info EXCEPT !.inner = part]
         IN  parseTypeParts(Tail(parts), next)

parseTypeRef(parts) ==
    LET info == parseTypeParts(IF parts = <<>> THEN << <<>> >> ELSE parts,
                               [nullable |-> FALSE, constant |-> FALSE,
                                explicitPointer |-> FALSE, inner |-> S_unknown])
    IN  IF info.explicitPointer /\ StartsWith(info.inner, S_WGPUChainedStruct)
        THEN [info EXCEPT !.nullable = TRUE]
        ELSE info

\* parseTypedIdent(entry): the last token is the name, what precedes it the
\* type; an entry with no " name" at its end does not parse (ok = FALSE: throws)
parseTypedIdent(entry) ==
    IF Len(entry) < 2
    THEN [ok |-> FALSE, name |-> <<>>, type |-> parseTypeRef(<<>>)]
    ELSE [ok |-> TRUE, name |-> entry[Len(entry)],
          type |-> parseTypeRef(SubSeq(entry, 1, Len(entry) - 1))]

isPluralOf(query, thing) ==
    \/ query = thing \o <<"s">>
    \/ /\ EndsWith(thing, <<"y">>)
       /\ query = Take(thing, Len(thing) - 1) \o <<"i", "e", "s">>

isCount(f) == EndsWith(f.name, S_Count) /\ f.type.inner = S_size_t

\* An areListField that takes any field named <prefix>Count for a count
areListFieldByName(f0, f1) ==
    LET byName(f) == EndsWith(f.name, S_Count)
        c == IF byName(f0) THEN f0 ELSE f1
        l == IF byName(f0) THEN f1 ELSE f0
    IN  IF ~byName(f0) /\ ~byName(f1) THEN [ok |-> FALSE, count |-> f0, list |-> f1]
        ELSE IF ~isPluralOf(l.name, Take(c.name, Len(c.name) - Len(S_Count)))
        THEN [ok |-> FALSE, count |-> f0, list |-> f1]
        ELSE [ok |-> TRUE, count |-> c, list |-> l]

\* An areListField that knows the (count, field) order only
areListFieldCountFirst(f0, f1) ==
    IF isCount(f0) /\ isPluralOf(f1.name, Take(f0.name, Len(f0.name) - Len(S_Count)))
    THEN [ok |-> TRUE, count |-> f0, list |-> f1]
    ELSE [ok |-> FALSE, count |-> f0, list |-> f1]

\* areListField(f0, f1): [ok, count, list]; ok = FALSE stands for undefined
areListField(f0, f1) ==
    LET none == [ok |-> FALSE, count |-> f0, list |-> f1]
        c == IF isCount(f0) THEN f0 ELSE f1
        l == IF isCount(f0) THEN f1 ELSE f0
        prefix == Take(c.name, Len(c.name) - Len(S_Count))
    IN  IF ~isCount(f0) /\ ~isCount(f1) THEN none
        ELSE IF ~isPluralOf(l.name, prefix) THEN none
        ELSE [ok |-> TRUE, count |-> c, list |-> l]

\* The field units (CStructField classes), one record shape for all.
ArrayField(name, countName, ctype) ==
    [unit |-> "ArrayField", name |-> name, other |-> countName, ctype |-> Ref(ctype),
     nullable |-> FALSE]

CallbackField(name, userdataName, ctype) ==
    [unit |-> "CallbackField", name |-> name, other |-> userdataName, ctype |-> Ref(ctype),
     nullable |-> FALSE]

PointerField(name, ctype, nullable) ==
    [unit |-> "PointerField", name |-> name, other |-> <<>>, ctype |-> Ref(ctype),
     nullable |-> nullable]

ValueField(name, ctype, parent) ==
    [unit |-> "ValueField", name |-> name, other |-> <<>>, ctype |-> Ref(ctype),
     nullable |-> FALSE]

\* A _createField that makes a PointerField of explicit pointers only
fieldOfTypeStarOnly(t, name, ref, parent) ==
    [api |-> t.api,
     ret |-> IF ref.explicitPointer
             THEN PointerField(name, t.ret, ref.nullable)
             ELSE ValueField(name, t.ret, parent)]

\* A _createField that makes a PointerField of every struct as well
fieldOfTypeStructPointer(t, name, ref, parent) ==
    [api |-> t.api,
     ret |-> IF ref.explicitPointer \/ t.ret.kind \in {"opaque", "struct"}
             THEN PointerField(name, t.ret, ref.nullable)
             ELSE ValueField(name, t.ret, parent)]

\* _createField(name, ref, parent), with t = this.getType(ref.inner)
fieldOfType(t, name, ref, parent) ==
    [api |-> t.api,
     ret |-> IF ref.explicitPointer \/ t.ret.kind = "opaque"
             THEN PointerField(name, t.ret, ref.nullable)
             ELSE ValueField(name, t.ret, parent)]

createField(api, name, ref, parent) == fieldOfType(getType(api, ref.inner), name, ref, parent)

\* A branch 1 that consumes the pair and moves on by one field only
fuseArrayByOne(inner, pair, fieldPos, fields) ==
    [api |-> getListWrapper(inner.api, inner.ret).api,
     pos |-> fieldPos + 1,
     fields |-> Append(fields, ArrayField(pair.list.name, pair.count.name, inner.ret))]

\* One iteration of the while loop of _addStruct at fieldPos (1-based):
\* [api, pos, fields] after it.
\* branch 1: the pair is an array; inner = this.getType(list.type.inner)
fuseArray(inner, pair, fieldPos, fields) ==
    [api |-> getListWrapper(inner.api, inner.ret).api,
     pos |-> fieldPos + 2,
     fields |-> Append(fields, ArrayField(pair.list.name, pair.count.name, inner.ret))]

\* branch 2: a callback and its userdata; t = this.getType(type.inner)
fuseCallback(t, f, g, fieldPos, fields) ==
    [api |-> t.api, pos |-> fieldPos + 2,
     fields |-> Append(fields, CallbackField(f.name, g.name, t.ret))]

\* branch 3: c = this._createField(name, type, cName)
plainField(c, fieldPos, fields) ==
    [api |-> c.api, pos |-> fieldPos + 1, fields |-> Append(fields, c.ret)]

classifyStep(api, rawFields, fieldPos, fields, cName) ==
    IF /\ fieldPos + 1 <= Len(rawFields)
       /\ areListField(rawFields[fieldPos], rawFields[fieldPos + 1]).ok
    THEN fuseArray(getType(api, areListField(rawFields[fieldPos],
                                             rawFields[fieldPos + 1]).list.type.inner),
                   areListField(rawFields[fieldPos], rawFields[fieldPos + 1]),
                   fieldPos, fields)
    ELSE IF /\ EndsWith(toLowerCase(rawFields[fieldPos].name), S_callback)
            /\ fieldPos + 1 <= Len(rawFields)
            /\ EndsWith(toLowerCase(rawFields[fieldPos + 1].name), S_userdata)
    THEN fuseCallback(getType(api, rawFields[fieldPos].type.inner), rawFields[fieldPos],
                      rawFields[fieldPos + 1], fieldPos, fields)
    ELSE plainField(createField(api, rawFields[fieldPos].name, rawFields[fieldPos].type, cName),
                    fieldPos, fields)

\* The whole loop, from fieldPos on
RECURSIVE classifyFields(_, _, _, _, _)
classifyRest(s, rawFields, cName) == classifyFields(s.api, rawFields, s.pos, s.fields, cName)

classifyFields(api, rawFields, fieldPos, fields, cName) ==
    IF fieldPos > Len(rawFields) THEN [api |-> api, ret |-> fields]
    ELSE classifyRest(classifyStep(api, rawFields, fieldPos, fields, cName), rawFields, cName)

\* this.types.set(cName, new CStruct(...)) with c the outcome of the field loop
registerStruct(c, cName) ==
    [ok |-> TRUE,
     api |-> [c.api EXCEPT !.types =
                MapSet(@, cName, CStruct(cName, toPyName(cName, TRUE), c.ret,
                                         cName \in SPECIAL_CLASSES))]]

addStructParsed(api, cName, rawFields) ==
    IF \E i \in 1..Len(rawFields) : ~rawFields[i].ok THEN [ok |-> FALSE, api |-> api]
    ELSE registerStruct(classifyFields(api, rawFields, 1, <<>>, cName), cName)

\* _addStruct(cdef, cName, body): body.split(";") is the sequence of entries.
\* ok = FALSE when an entry does not parse (parseTypedIdent throws).
addStruct(api, cName, body) ==
    addStructParsed(api, cName, [i \in 1..Len(body) |-> parseTypedIdent(body[i])])

FuncArg(name, ctype, explicitPointer, explicitConst, nullable) ==
    [name |-> name, ctype |-> Ref(ctype), explicitPointer |-> explicitPointer,
     explicitConst |-> explicitConst, nullable |-> nullable]

returnOfType(t, info) ==
    [api |-> t.api, ret |-> FuncArg(<<"r">>, t.ret, info.explicitPointer, info.constant, FALSE)]

returnOfRef(api, info) == returnOfType(getType(api, info.inner), info)

\* _parseFuncReturn(returnType)
parseFuncReturn(api, returnType) ==
    IF returnType = <<S_void>>
    THEN returnOfType(getType(api, S_void),
                      [nullable |-> FALSE, constant |-> FALSE,
                       explicitPointer |-> FALSE, inner |-> S_void])
    ELSE returnOfRef(api, parseTypeRef(returnType))

\* _parseFuncArgs(argStr): argStr.split(",") is the sequence `idents`; the
\* argument strings "" and "void" are <<>> and << <<S_void>> >>.
RECURSIVE parseArgList(_, _, _)
argOfType(t, p, idents, acc) ==
    parseArgList(t.api, Tail(idents),
                 Append(acc, FuncArg(p.name, t.ret, p.type.explicitPointer, p.type.constant,
                                     p.type.nullable \/ p.name \in FORCE_NULLABLE_ARGS)))

argOfIdent(api, p, idents, acc) ==
    IF ~p.ok THEN [ok |-> FALSE, api |-> api, ret |-> acc]
    ELSE argOfType(getType(api, p.type.inner), p, idents, acc)

parseArgList(api, idents, acc) ==
    IF idents = <<>> THEN [ok |-> TRUE, api |-> api, ret |-> acc]
    ELSE argOfIdent(api, parseTypedIdent(Head(idents)), idents, acc)

parseFuncArgs(api, idents) ==
    IF idents = <<>> \/ idents = << <<S_void>> >>
    THEN [ok |-> TRUE, api |-> api, ret |-> <<>>]
    ELSE parseArgList(api, idents, <<>>)

\* A _findFuncParent that finds no parent for any function
findFuncParentNone(api, args) == [defined |-> FALSE, key |-> <<>>]

\* _findFuncParent(args): [defined, key]; the parent is types.get(key)
findFuncParent(api, args) ==
    IF Len(args) > 0 /\ MapHas(api.types, args[1].ctype.cName)
    THEN [defined |-> TRUE, key |-> args[1].ctype.cName]
    ELSE [defined |-> FALSE, key |-> <<>>]

\* COpaque.addFunc(func): the key under which the handle files the function
funcKeyOf(pyFname) ==
    IF pyFname = S_release \/ pyFname = S_reference THEN S_underscore \o pyFname ELSE pyFname

opaqueFuncKey(cName, func) ==
    funcKeyOf(toPyName(removePrefixCaseInsensitive(func.name, cName), FALSE))

hasAddFunc(d) == d.cls = "COpaque"

\* parent.addFunc(func) on the registered descriptor d
parentAddFunc(api, key, d, func) ==
    [api EXCEPT !.types =
        MapSet(@, key, [d EXCEPT !.funcs = MapSet(@, opaqueFuncKey(d.cName, func), func)])]

\* the tail of _addFunc: parent = this._findFuncParent(args)
attachFunc(api, func, parent) ==
    IF parent.defined /\ hasAddFunc(MapGet(api.types, parent.key))
    THEN [ok |-> TRUE, api |-> parentAddFunc(api, parent.key, MapGet(api.types, parent.key), func)]
    ELSE [ok |-> TRUE, api |-> [api EXCEPT !.looseFuncs = Append(@, func)]]

funcWithReturn(r, name, args) ==
    attachFunc(r.api, [name |-> name, args |-> args, ret |-> r.ret],
               findFuncParent(r.api, args))

funcWithArgs(api, a, name, returnType) ==
    IF ~a.ok THEN [ok |-> FALSE, api |-> api]
    ELSE funcWithReturn(parseFuncReturn(a.api, returnType), name, a.ret)

\* _addFunc(name, argStr, returnType)
addFunc(api, name, idents, returnType) ==
    funcWithArgs(api, parseFuncArgs(api, idents), name, returnType)

(***************************************************************************)
(* Emission: prepFuncCall, getDescriptorArg, emitFuncDef, the emit methods *)
(* and the loops of the main script.                                       *)
(***************************************************************************)
\* The while loop of prepFuncCall from idx on (1-based); acc = [pyArgs, callArgs]
RECURSIVE prepArgs(_, _, _, _)
\* one python argument, two call arguments
pairArg(acc, name, part1, part2) ==
    [pyArgs |-> Append(acc.pyArgs, name),
     callArgs |-> acc.callArgs \o << <<name, part1>>, <<name, part2>> >>]

singleArg(acc, name, part) ==
    [pyArgs |-> Append(acc.pyArgs, name), callArgs |-> Append(acc.callArgs, <<name, part>>)]

prepArgs(api, args, idx, acc) ==
    IF idx > Len(args) THEN [api |-> api, ret |-> acc]
    ELSE IF /\ idx + 1 <= Len(args)
            /\ args[idx].ctype.cName = S_size_t
            /\ EndsWith(args[idx].name, S_Count)
    THEN prepArgs(getListWrapper(api, args[idx + 1].ctype).api, args, idx + 2,
                  pairArg(acc, args[idx + 1].name, "_staged._count", "_staged._ptr"))
    ELSE IF /\ args[idx].ctype.cName = S_void
            /\ args[idx].explicitPointer
            /\ idx + 1 <= Len(args)
            /\ args[idx + 1].ctype.cName = S_size_t
            /\ EndsWith(toLowerCase(args[idx + 1].name), S_size)
    THEN prepArgs(api, args, idx + 2, pairArg(acc, args[idx].name, "._ptr", "._size"))
    ELSE IF args[idx].name = S_callback
    THEN prepArgs(api, args, idx + 2, pairArg(acc, args[idx].name, "._ptr", "._userdata"))
    ELSE IF args[idx].nullable /\ (args[idx].explicitPointer \/ args[idx].ctype.kind = "opaque")
    THEN prepArgs(api, args, idx + 1, singleArg(acc, args[idx].name, "_ffi_unwrap_optional"))
    ELSE prepArgs(api, args, idx + 1, singleArg(acc, args[idx].name, "unwrap"))

S_self == <<"s", "e", "l", "f">>

prepFuncCall(api, func, isMemberFunc) ==
    prepArgs(api, func.args, IF isMemberFunc THEN 2 ELSE 1,
             [pyArgs |-> IF isMemberFunc THEN <<S_self>> ELSE <<>>,
              callArgs |-> IF isMemberFunc THEN << <<S_self, "._cdata">> >> ELSE <<>>])

\* the condition of getDescriptorArg on the one remaining argument
isDescArg(arg) ==
    \/ arg.name = S_descriptor /\ EndsWith(arg.ctype.cName, S_Descriptor)
    \/ arg.name = S_config /\ EndsWith(arg.ctype.cName, S_Configuration)

\* getDescriptorArg(func, isMemberFunc): [defined, cName of the struct]
getDescriptorArg(func, isMemberFunc) ==
    IF /\ Len(func.args) = (IF isMemberFunc THEN 2 ELSE 1)
       /\ isDescArg(func.args[IF isMemberFunc THEN 2 ELSE 1])
    THEN [defined |-> TRUE, cName |-> func.args[IF isMemberFunc THEN 2 ELSE 1].ctype.cName]
    ELSE [defined |-> FALSE, cName |-> <<>>]

\* CStruct.chainable() reads fields[0]: it throws on a struct without fields
chainableThrows(d) == d.cls # "CStruct" \/ d.fields = <<>>

chainable(d) ==
    /\ d.fields[1].name = S_chain
    /\ StartsWith(d.fields[1].ctype.cName, S_WGPUChainedStruct)

publicFields(d) == IF chainable(d) THEN Tail(d.fields) ELSE d.fields

FuncDef(name, patched, pyArgs, callArgs, fromDesc, descArgs) ==
    [name |-> name, patched |-> patched, pyArgs |-> pyArgs, callArgs |-> callArgs,
     fromDesc |-> fromDesc, descArgs |-> descArgs]

FieldNames(fs) == [i \in 1..Len(fs) |-> fs[i].name]

\* emitFuncDef past prepFuncCall: p is its outcome, desc that of getDescriptorArg
funcDefOf(p, pyFname, desc) ==
    IF ~desc.defined
    THEN [api |-> p.api, threw |-> FALSE,
          ret |-> FuncDef(pyFname, FALSE, p.ret.pyArgs, p.ret.callArgs, FALSE, <<>>)]
    ELSE IF ~MapHas(p.api.types, desc.cName) \/ chainableThrows(MapGet(p.api.types, desc.cName))
    THEN [api |-> p.api, threw |-> TRUE,
          ret |-> FuncDef(pyFname, FALSE, p.ret.pyArgs, p.ret.callArgs, FALSE, <<>>)]
    ELSE [api |-> p.api, threw |-> FALSE,
          ret |-> FuncDef(pyFname, FALSE, p.ret.pyArgs, p.ret.callArgs, TRUE,
                          FieldNames(publicFields(MapGet(p.api.types, desc.cName))))]

\* emitFuncDef(api, pyFname, func, isMemberFunc): [api, threw, ret]
emitFuncDef(api, pyFname, func, isMemberFunc) ==
    IF func.name \in PATCHED_FUNCTIONS
    THEN [api |-> api, threw |-> FALSE, ret |-> FuncDef(pyFname, TRUE, <<>>, <<>>, FALSE, <<>>)]
    ELSE funcDefOf(prepFuncCall(api, func, isMemberFunc), pyFname,
                   getDescriptorArg(func, isMemberFunc))

\* The defs that emitFuncDef returns for d, each with its name, its
\* parameter list and the call of its body. (A member function is the one
\* whose pyArgs start with self.)
entryPoint(name, pyArgs, callee, callArgs) ==
    [name |-> name, pyArgs |-> pyArgs, callee |-> callee, callArgs |-> callArgs]

descArglist(d) ==
    (IF d.pyArgs # <<>> /\ d.pyArgs[1] = S_self THEN <<S_self, S_star>> ELSE <<S_star>>)
        \o d.descArgs

entryPoints(d) ==
    IF d.patched THEN <<>>
    ELSE IF d.fromDesc
    THEN << entryPoint(d.name \o S_FromDesc, d.pyArgs, "lib", d.callArgs),
            entryPoint(d.name, descArglist(d), "FromDesc",
                       [i \in 1..Len(d.descArgs) |-> <<d.descArgs[i], d.descArgs[i]>>]) >>
    ELSE << entryPoint(d.name, d.pyArgs, "lib", d.callArgs) >>

\* The for loop of COpaque.emit over this.funcs, from position i on
RECURSIVE emitMemberFuncs(_, _, _, _)
memberFuncDone(e, funcs, i, acc) ==
    IF e.threw THEN [api |-> e.api, threw |-> TRUE, ret |-> acc]
    ELSE emitMemberFuncs(e.api, funcs, i + 1, Append(acc, e.ret))

emitMemberFuncs(api, funcs, i, acc) ==
    IF i > Len(funcs) THEN [api |-> api, threw |-> FALSE, ret |-> acc]
    ELSE memberFuncDone(emitFuncDef(api, funcs[i].key, funcs[i].val, TRUE), funcs, i, acc)

Frag(kind, name, defs) == [kind |-> kind, name |-> name, defs |-> defs]

NoError == [kind |-> "none", names |-> <<>>]

\* A COpaque.emit that asks for the release function only
opaqueEmitReleaseOnly(m, d) ==
    IF m.threw
    THEN [api |-> m.api, error |-> [kind |-> "TypeError", names |-> <<>>],
          ret |-> Frag("class", d.pyName, <<>>)]
    ELSE IF ~MapHas(d.funcs, S_underscore \o S_release)
    THEN [api |-> m.api,
          error |-> [kind |-> "Opaque missing reference or release", names |-> d.cName],
          ret |-> Frag("class", d.pyName, <<>>)]
    ELSE [api |-> m.api, error |-> NoError, ret |-> Frag("class", d.pyName, m.ret)]

\* COpaque.emit past the loop over this.funcs, whose outcome is m
opaqueEmitChecked(m, d) ==
    IF m.threw
    THEN [api |-> m.api, error |-> [kind |-> "TypeError", names |-> <<>>],
          ret |-> Frag("class", d.pyName, <<>>)]
    ELSE IF \/ ~MapHas(d.funcs, S_underscore \o S_reference)
            \/ ~MapHas(d.funcs, S_underscore \o S_release)
    THEN [api |-> m.api,
          error |-> [kind |-> "Opaque missing reference or release", names |-> d.cName],
          ret |-> Frag("class", d.pyName, <<>>)]
    ELSE [api |-> m.api, error |-> NoError, ret |-> Frag("class", d.pyName, m.ret)]

\* COpaque.emit(api): [api, error, ret]
opaqueEmit(api, d) == opaqueEmitChecked(emitMemberFuncs(api, d.funcs, 1, <<>>), d)

\* CStruct.emit(): [api, error, ret]
structEmit(api, d) ==
    IF d.noEmit THEN [api |-> api, error |-> NoError, ret |-> Frag("comment", d.pyName, <<>>)]
    ELSE IF chainableThrows(d)
    THEN [api |-> api, error |-> [kind |-> "TypeError", names |-> <<>>],
          ret |-> Frag("class", d.pyName, <<>>)]
    ELSE [api |-> api, error |-> NoError, ret |-> Frag("class", d.pyName, <<>>)]

(***************************************************************************)
(* The input header: a selection, in file order, of these declarations.    *)
(***************************************************************************)
Decl(k, name, body, args, ret) ==
    [k |-> k, name |-> name, body |-> body, args |-> args, ret |-> ret]

DeclPool ==
    << Decl("opaque", S_WGPUBuffer, <<>>, <<>>, <<>>),
       Decl("opaque", S_WGPUQueue, <<>>, <<>>, <<>>),
       Decl("struct", S_WGPUBufferDescriptor,
            << <<S_size_t, S_entryCount>>,
               <<S_WGPUBuffer, S_const, S_star, S_entries>>,
               <<S_uint32_t, S_size>> >>, <<>>, <<>>),
       Decl("struct", S_WGPUQueueDescriptor,
            << <<S_size_t, S_itemCount>>,
               <<S_uint32_t, S_const, S_star, S_items>>,
               <<S_WGPUBuffer, S_const, S_star, S_buffers>>,
               <<S_size_t, S_bufferCount>> >>, <<>>, <<>>),
       Decl("func", S_wgpuBufferReference, <<>>, << <<S_WGPUBuffer, S_buffer>> >>, <<S_void>>),
       Decl("func", S_wgpuBufferRelease, <<>>, << <<S_WGPUBuffer, S_buffer>> >>, <<S_void>>),
       Decl("func", S_wgpuQueueReference, <<>>, << <<S_WGPUQueue, S_queue>> >>, <<S_void>>),
       Decl("func", S_wgpuQueueRelease, <<>>, << <<S_WGPUQueue, S_queue>> >>, <<S_void>>),
       Decl("func", S_wgpuQueueSubmit, <<>>,
            << <<S_WGPUQueue, S_queue>>,
               <<S_size_t, S_commandCount>>,
               <<S_WGPUBuffer, S_const, S_star, S_commands>> >>, <<S_void>>),
       Decl("func", S_wgpuGetVersion, <<>>, << <<S_void>> >>, <<S_uint32_t>>),
       Decl("func", S_wgpuPollEvents, <<>>, <<>>, <<S_void>>),
       Decl("func", S_wgpuCreateBuffer, <<>>,
            << <<S_WGPUBufferDescriptor, S_const, S_star, S_descriptor>> >>,
            <<S_WGPUBuffer>>),
       \* a prototype that leaves its parameter unnamed
       Decl("func", S_wgpuBufferDestroy, <<>>, << <<S_WGPUBuffer>> >>, <<S_void>>) >>

\* the elements of s at the positions in S, in order
RECURSIVE PickFrom(_, _, _)
PickFrom(s, S, i) ==
    IF i > Len(s) THEN <<>>
    ELSE (IF i \in S THEN <<s[i]>> ELSE <<>>) \o PickFrom(s, S, i + 1)

OfKind(h, k) == SelectSeq(h, LAMBDA d : d.k = k)

(***************************************************************************)
(* The run: api.parse(SRC_NO_COMMENTS), then the emission loops of the     *)
(* main script, then the two writeFileSync calls.                          *)
(***************************************************************************)
Api == [types |-> types, wrappers |-> wrappers, looseFuncs |-> looseFuncs,
        lookups |-> <<>>, creates |-> creates]

Commit(a) ==
    /\ types' = a.types
    /\ wrappers' = a.wrappers
    /\ looseFuncs' = a.looseFuncs
    /\ lookups' = a.lookups
    /\ creates' = a.creates

Abort(a, e) ==
    /\ Commit(a)
    /\ pc' = "aborted"
    /\ error' = e
    /\ UNCHANGED <<header, pos, pyFrags, files>>

\* pc moves on to the next loop
Goto(next) ==
    /\ pc' = next
    /\ pos' = 1
    /\ lookups' = <<>>
    /\ UNCHANGED <<header, types, wrappers, looseFuncs, pyFrags, error, files, creates>>

InitApi ==
    /\ \E S \in SUBSET (1..Len(DeclPool)) : header = PickFrom(DeclPool, S, 1)
    /\ pc = "findOpaquePointers"
    /\ pos = 1
    /\ types = InitialTypes
    /\ wrappers = <<>>
    /\ looseFuncs = <<>>
    /\ pyFrags = <<>>
    /\ error = NoError
    /\ files = {}
    /\ lookups = <<>>
    /\ creates = <<>>

\* the outcome r of a parse step: it threw, or the loop goes on
ParseStep(r) ==
    IF ~r.ok THEN Abort(r.api, [kind |-> "Unable to parse", names |-> <<>>])
    ELSE /\ Commit(r.api)
         /\ pos' = pos + 1
         /\ UNCHANGED <<header, pc, pyFrags, error, files>>

\* an emission loop that writes bindings.py as it goes, fragment by fragment
EmitStepStreaming(e) ==
    IF e.error # NoError THEN Abort(e.api, e.error)
    ELSE /\ Commit(e.api)
         /\ pyFrags' = Append(pyFrags, e.ret)
         /\ pos' = pos + 1
         /\ files' = files \cup {"bindings.py"}
         /\ UNCHANGED <<header, pc, error>>

\* the outcome e of an emit step: it threw, or its text is pushed to pyFrags
EmitStep(e) ==
    IF e.error # NoError THEN Abort(e.api, e.error)
    ELSE /\ Commit(e.api)
         /\ pyFrags' = Append(pyFrags, e.ret)
         /\ pos' = pos + 1
         /\ UNCHANGED <<header, pc, error, files>>

\* findOpaquePointers: one match of the typedef-struct-pointer pattern
FindOpaquePointers ==
    /\ pc = "findOpaquePointers"
    /\ IF pos > Len(OfKind(header, "opaque")) THEN Goto("findConcreteStructs")
       ELSE /\ types' = MapSet(types, OfKind(header, "opaque")[pos].name,
                               COpaque(OfKind(header, "opaque")[pos].name,
                                       toPyName(OfKind(header, "opaque")[pos].name, TRUE)))
            /\ pos' = pos + 1
            /\ lookups' = <<>>
            /\ UNCHANGED <<header, pc, wrappers, looseFuncs, pyFrags, error, files, creates>>
    /\ UNCHANGED outsideApi

\* findConcreteStructs: one match, handed to _addStruct
FindConcreteStructs ==
    /\ pc = "findConcreteStructs"
    /\ IF pos > Len(OfKind(header, "struct")) THEN Goto("findExportedFunctions")
       ELSE ParseStep(addStruct(Api, OfKind(header, "struct")[pos].name,
                                OfKind(header, "struct")[pos].body))
    /\ UNCHANGED outsideApi

\* findExportedFunctions: one match, handed to _addFunc
FindExportedFunctions ==
    /\ pc = "findExportedFunctions"
    /\ IF pos > Len(OfKind(header, "func")) THEN Goto("emitTypes")
       ELSE ParseStep(addFunc(Api, OfKind(header, "func")[pos].name,
                              OfKind(header, "func")[pos].args,
                              OfKind(header, "func")[pos].ret))
    /\ UNCHANGED outsideApi

\* One iteration of the "Basic types" loop over api.types.entries()
EmitType ==
    /\ pc = "emitTypes"
    /\ IF pos > Len(types) THEN Goto("emitLoose")
       ELSE IF types[pos].val.cls = "COpaque" THEN EmitStep(opaqueEmit(Api, types[pos].val))
       ELSE IF types[pos].val.cls = "CStruct" THEN EmitStep(structEmit(Api, types[pos].val))
       ELSE /\ pos' = pos + 1
            /\ lookups' = <<>>
            /\ UNCHANGED <<header, pc, types, wrappers, looseFuncs, pyFrags,
                           error, files, creates>>
    /\ UNCHANGED outsideApi

\* emitFuncDef's outcome as that of an emit step
looseEmit(e) ==
    [api |-> e.api,
     error |-> IF e.threw THEN [kind |-> "TypeError", names |-> <<>>] ELSE NoError,
     ret |-> Frag("func", e.ret.name, <<e.ret>>)]

\* One iteration of the "Loose functions" loop
EmitLooseFunc ==
    /\ pc = "emitLoose"
    /\ IF pos > Len(looseFuncs) THEN Goto("emitWrappers")
       ELSE EmitStep(looseEmit(emitFuncDef(Api, toPyName(looseFuncs[pos].name, FALSE),
                                           looseFuncs[pos], FALSE)))
    /\ UNCHANGED outsideApi

\* One iteration of the "Util wrapper types" loop over api.wrappers.entries()
EmitWrapper ==
    /\ pc = "emitWrappers"
    /\ IF pos > Len(wrappers) THEN Goto("write")
       ELSE /\ pyFrags' = Append(pyFrags, Frag("wrapper", wrappers[pos].key, <<>>))
            /\ pos' = pos + 1
            /\ lookups' = <<>>
            /\ UNCHANGED <<header, pc, types, wrappers, looseFuncs, error, files, creates>>
    /\ UNCHANGED outsideApi

\* writeFileSync(_build_ext.py); writeFileSync(bindings.py)
WriteFiles ==
    /\ pc = "write"
    /\ files' = {"_build_ext.py", "bindings.py"}
    /\ pc' = "done"
    /\ lookups' = <<>>
    /\ UNCHANGED <<header, pos, types, wrappers, looseFuncs, pyFrags, error, creates>>
    /\ UNCHANGED outsideApi

Next ==
    \/ FindOpaquePointers
    \/ FindConcreteStructs
    \/ FindExportedFunctions
    \/ EmitType
    \/ EmitLooseFunc
    \/ EmitWrapper
    \/ WriteFiles

ApiIdle ==
    /\ header = <<>>
    /\ pc = "idle"
    /\ pos = 1
    /\ types = <<>>
    /\ wrappers = <<>>
    /\ looseFuncs = <<>>
    /\ pyFrags = <<>>
    /\ error = NoError
    /\ files = {}
    /\ lookups = <<>>
    /\ creates = <<>>

CleanIdle ==
    /\ cLines = <<>>
    /\ cPos = 1
    /\ cFrags = <<>>
    /\ cStatus = "idle"
    /\ cOut = <<>>

StructIdle == sRawFields = <<>> /\ sFields = <<>>

FlagsIdle ==
    /\ fEnum = <<>>
    /\ fList = <<>>
    /\ fValue = 0
    /\ fIter = <<>>
    /\ fPc = "idle"

\* NULL, and the chain of a ChainedStruct that is not being constructed
NULL == 0

ChainIdle ==
    /\ chList = <<>>
    /\ chCdata = NULL
    /\ chNext = <<>>
    /\ chIdx = 1
    /\ chPc = "idle"

WideIdle ==
    /\ xEntries = <<>>
    /\ xPos = 1
    /\ xRet = <<>>
    /\ xPc = "idle"

CBIdle ==
    /\ cbCallbacks = <<>>
    /\ cbIndex = 0
    /\ cbObjs = <<>>
    /\ cbRemoved = {}
    /\ cbCalled = <<>>

HandleIdle ==
    /\ hCdata = NULL
    /\ hGc = "none"
    /\ hReleases = 0
    /\ hRefs = 0
    /\ hTrace = <<>>
    /\ hRaised = FALSE

Init ==
    InitApi /\ CleanIdle /\ StructIdle /\ FlagsIdle /\ ChainIdle /\ WideIdle /\ CBIdle /\ HandleIdle

Spec == Init /\ [][Next]_vars

(***************************************************************************)
(* Properties of the generator run (Spec).                                 *)
(***************************************************************************)
\* the registered opaque handle an argument entry names as its type, if any
NamesHandle(entry, reg, h) ==
    /\ MapHas(reg, h)
    /\ MapGet(reg, h).cls = "COpaque"
    /\ \E k \in 1..(Len(entry) - 1) : entry[k] = h

HasMemberFunc(d, fname) == \E i \in 1..Len(d.funcs) : d.funcs[i].val.name = fname

IsZeroArgs(argEntries) == argEntries = <<>> \/ argEntries = << <<S_void>> >>

\* the function declaration that the step of findExportedFunctions hands to _addFunc
FuncAtPos == OfKind(header, "func")[pos]

AddFuncStep == pc = "findExportedFunctions" /\ pos <= Len(OfKind(header, "func"))

\* C1: every function handed to _addFunc whose first argument's type is a
\* registered opaque handle becomes a member of that handle and looseFuncs
\* stays as it was; a function with no arguments ("" or "void") is appended
\* to looseFuncs and no handle gains a member.
C1_MemberOrLoose ==
    [][AddFuncStep =>
        /\ IsZeroArgs(FuncAtPos.args) =>
              /\ Len(looseFuncs') = Len(looseFuncs) + 1
              /\ looseFuncs'[Len(looseFuncs')].name = FuncAtPos.name
              /\ types' = types
        /\ \A i \in 1..Len(types) :
              (~IsZeroArgs(FuncAtPos.args) /\ NamesHandle(FuncAtPos.args[1], types, types[i].key))
              => /\ looseFuncs' = looseFuncs
                 /\ HasMemberFunc(MapGet(types', types[i].key), FuncAtPos.name)
    ]_vars

\* C1 witness: a handle has gained a member function and a zero-argument
\* function has been put on looseFuncs
C1_Witness ==
    /\ \E i \in 1..Len(types) : types[i].val.cls = "COpaque" /\ types[i].val.funcs # <<>>
    /\ \E j \in 1..Len(looseFuncs) : looseFuncs[j].args = <<>>

RefFuncName(cName) == S_wgpu \o Drop(cName, Len(S_WGPU)) \o S_Reference

RelFuncName(cName) == S_wgpu \o Drop(cName, Len(S_WGPU)) \o S_Release

HasRefAndRelease(d) ==
    /\ HasMemberFunc(d, RefFuncName(d.cName))
    /\ HasMemberFunc(d, RelFuncName(d.cName))

EmitOpaqueStep == pc = "emitTypes" /\ pos <= Len(types) /\ types[pos].val.cls = "COpaque"

\* C2: emitting an opaque handle that lacks its reference function, its
\* release function, or both among its member functions aborts the run with
\* the error that names the handle, and nothing is emitted for it; the
\* emission goes through only when both are there.
C2_MissingRefOrRelease ==
    [][EmitOpaqueStep =>
        /\ ~HasRefAndRelease(types[pos].val) =>
              /\ pc' = "aborted"
              /\ error'.kind = "Opaque missing reference or release"
              /\ error'.names = types[pos].val.cName
              /\ pyFrags' = pyFrags
        /\ pc' # "aborted" =>
              /\ HasRefAndRelease(types[pos].val)
              /\ pyFrags' = Append(pyFrags, pyFrags'[Len(pyFrags')])
              /\ pyFrags'[Len(pyFrags')].name = types[pos].val.pyName
    ]_vars

\* C2 witness: the run has aborted on WGPUQueue, which has a release function
\* but no reference function
C2_Witness ==
    /\ pc = "aborted"
    /\ error.names = S_WGPUQueue
    /\ HasMemberFunc(MapGet(types, S_WGPUQueue), S_wgpuQueueRelease)
    /\ ~HasMemberFunc(MapGet(types, S_WGPUQueue), S_wgpuQueueReference)

\* C9: every getType call of a step returns the descriptor registered under
\* the name, or the UNKNOWN sentinel when none is; a name that was looked up
\* and not found is not in the registry afterwards, and the step does not
\* abort the run.
C9_GetTypeTotal ==
    [][\A i \in 1..Len(lookups') :
        /\ lookups'[i][2] = (IF MapHas(types, lookups'[i][1])
                             THEN Ref(MapGet(types, lookups'[i][1]))
                             ELSE Ref(UNKNOWN_TYPE))
        /\ ~MapHas(types, lookups'[i][1]) => ~MapHas(types', lookups'[i][1])
        /\ MapKeys(types) \subseteq MapKeys(types')
        /\ pc' # "aborted"
    ]_vars

\* C9 witness: the run has written its files although the first argument of a
\* function referred to a type that is not registered
C9_Witness ==
    /\ pc = "done"
    /\ files # {}
    /\ \E i \in 1..Len(looseFuncs) :
          /\ looseFuncs[i].name = S_wgpuBufferRelease
          /\ looseFuncs[i].args[1].ctype = Ref(UNKNOWN_TYPE)
          /\ ~MapHas(types, S_WGPUBuffer)

NoDuplicates(s) == \A i, j \in 1..Len(s) : s[i] = s[j] => i = j

WrapperFrags(frags, key) ==
    { i \in 1..Len(frags) : frags[i].kind = "wrapper" /\ frags[i].name = key }

\* C10: the factory of a helper key is invoked at most once, a helper once
\* created is never replaced, and when the run is done every helper has been
\* emitted exactly once and nothing else was emitted as a helper.
C10_WrapperOnce ==
    [][/\ NoDuplicates(creates')
       /\ \A i \in 1..Len(wrappers) : i <= Len(wrappers') /\ wrappers'[i] = wrappers[i]
       /\ MapKeys(wrappers') = Range(creates')
       /\ pc' = "done" =>
             /\ \A i \in 1..Len(wrappers') :
                   Cardinality(WrapperFrags(pyFrags', wrappers'[i].key)) = 1
             /\ \A j \in 1..Len(pyFrags') :
                   pyFrags'[j].kind = "wrapper" => MapHas(wrappers', pyFrags'[j].name)
    ]_vars

\* C10 witness: the run is done, both structs asked for the list helper of
\* WGPUBuffer and so did wgpuQueueSubmit
C10_Witness ==
    /\ pc = "done"
    /\ Len(OfKind(header, "struct")) = 2
    /\ \E i \in 1..Len(header) : header[i].name = S_wgpuQueueSubmit
    /\ MapHas(types, S_WGPUQueue)
    /\ MapHas(types, S_WGPUBuffer)
    /\ Cardinality(WrapperFrags(pyFrags, S_LIST_prefix \o S_WGPUBuffer)) = 1

\* the registered struct an argument entry names as its type, if any
NamesStruct(entry, reg, s) ==
    /\ MapHas(reg, s)
    /\ MapGet(reg, s).cls = "CStruct"
    /\ \E k \in 1..(Len(entry) - 1) : entry[k] = s

\* C12: every function handed to _addFunc whose first argument's type is a
\* registered struct becomes a member function of that struct and looseFuncs
\* stays as it was, as for opaque handles.
C12_StructMember ==
    [][AddFuncStep =>
        \A i \in 1..Len(types) :
            (~IsZeroArgs(FuncAtPos.args) /\ NamesStruct(FuncAtPos.args[1], types, types[i].key))
            => /\ looseFuncs' = looseFuncs
               /\ HasMemberFunc(MapGet(types', types[i].key), FuncAtPos.name)
    ]_vars

\* C12: wgpuCreateBuffer(WGPUBufferDescriptor const * descriptor) is on
\* looseFuncs although WGPUBufferDescriptor is a registered struct, and the
\* struct has no member function
C12_StructFuncIsLoose ==
    /\ MapHas(types, S_WGPUBufferDescriptor)
    /\ MapGet(types, S_WGPUBufferDescriptor).cls = "CStruct"
    /\ MapGet(types, S_WGPUBufferDescriptor).funcs = <<>>
    /\ \E j \in 1..Len(looseFuncs) :
          /\ looseFuncs[j].name = S_wgpuCreateBuffer
          /\ looseFuncs[j].args[1].ctype.cName = S_WGPUBufferDescriptor

OutputFiles == {"_build_ext.py", "bindings.py"}

\* C14: every step of the run starts with no output file written and from a
\* state that is neither completed nor aborted; a step that writes a file
\* writes both, completes the run and leaves no error; a step that aborts
\* leaves no file and an error.  So a run ends with both files or with none.
C14_CompleteOrAbort ==
    [][/\ pc \notin {"done", "aborted"}
       /\ files = {}
       /\ files' # {} => (files' = OutputFiles /\ pc' = "done" /\ error' = NoError)
       /\ pc' = "aborted" => (files' = {} /\ error' # NoError)
       /\ pc' = "done" => files' = OutputFiles
    ]_vars

\* C14 witness: the run aborted in the emission of WGPUQueue, after other
\* types were emitted, and no file was written
C14_Witness ==
    /\ pc = "aborted"
    /\ error.kind = "Opaque missing reference or release"
    /\ pyFrags # <<>>
    /\ files = {}

\* the function definitions emitted so far
EmittedDefs ==
    UNION { { pyFrags[j].defs[k] : k \in 1..Len(pyFrags[j].defs) } : j \in 1..Len(pyFrags) }

\* the entry point that d would get were it not eligible for the descriptor call
PlainEntry(d) == entryPoint(d.name, d.pyArgs, "lib", d.callArgs)

\* C23: for every emitted function that takes the descriptor-call
\* convenience, the entry point under the function's primary name has the
\* parameter list and the native call of the function's plain definition.
C23_PrimaryEntryUnaltered ==
    \A d \in EmittedDefs :
        d.fromDesc =>
            \E i \in 1..Len(entryPoints(d)) : entryPoints(d)[i] = PlainEntry(d)

\* createBuffer is emitted twice: the definition with the native call is
\* named createBufferFromDesc, and the name createBuffer is that of the
\* keyword form, which calls it.
C23_PrimaryNameIsKeywordForm ==
    /\ pc = "done"
    /\ \E d \in EmittedDefs :
          /\ d.name = toPyName(S_wgpuCreateBuffer, FALSE)
          /\ d.fromDesc
          /\ Len(entryPoints(d)) = 2
          /\ entryPoints(d)[1] = [PlainEntry(d) EXCEPT !.name = d.name \o S_FromDesc]
          /\ entryPoints(d)[2].name = d.name
          /\ entryPoints(d)[2].pyArgs = <<S_star, S_entries, S_size>>
          /\ entryPoints(d)[2].callee = "FromDesc"


(***************************************************************************)
(* Enums: parseEnumEntry, convertEnumValuesToConstants, CEnum, findEnums.  *)
(***************************************************************************)
Includes(s, ch) == \E i \in 1..Len(s) : s[i] = ch

\* s.split(ch) for a one-character separator
RECURSIVE SplitAt(_, _, _)
SplitAt(s, ch, piece) ==
    IF s = <<>> THEN <<piece>>
    ELSE IF Head(s) = ch THEN <<piece>> \o SplitAt(Tail(s), ch, <<>>)
    ELSE SplitAt(Tail(s), ch, Append(piece, Head(s)))

Split(s, ch) == SplitAt(s, ch, <<>>)

\* parseEnumEntry(parentName, entry): defined = FALSE stands for undefined
parseEnumEntry(parentName, entry) ==
    IF ~Includes(entry, "=")
    THEN [defined |-> FALSE, name |-> <<>>, val |-> <<>>]
    ELSE [defined |-> TRUE,
          name |-> cleanup(Trim(Split(entry, "=")[1]), parentName),
          val |-> Trim(Split(entry, "=")[2])]

\* onlyDefined(items): name and val of the defined ones
RECURSIVE onlyDefined(_)
onlyDefined(items) ==
    IF items = <<>> THEN <<>>
    ELSE (IF Head(items).defined
          THEN << [name |-> Head(items).name, val |-> Head(items).val] >>
          ELSE <<>>) \o onlyDefined(Tail(items))

HexDigits ==
    << "0", "1", "2", "3", "4", "5", "6", "7", "8", "9", "a", "b", "c", "d", "e", "f" >>

IsDigit(c, base) == \E i \in 1..base : HexDigits[i] = ToLowerChar(c)

DigitVal(c) == (CHOOSE i \in 1..16 : HexDigits[i] = ToLowerChar(c)) - 1

RECURSIVE ParseDigits(_, _, _)
ParseDigits(s, base, acc) ==
    IF s = <<>> THEN acc ELSE ParseDigits(Tail(s), base, acc * base + DigitVal(Head(s)))

IsHexLiteral(s) ==
    /\ Len(s) > 2
    /\ s[1] = "0"
    /\ s[2] \in {"x", "X"}
    /\ \A i \in 3..Len(s) : IsDigit(s[i], 16)

IsDecLiteral(s) == s # <<>> /\ \A i \in 1..Len(s) : IsDigit(s[i], 10)

\* Number(val) of a trimmed string: [finite, n]; the empty string is 0, a
\* string that is no numeric literal is NaN
Number(val) ==
    IF val = <<>> THEN [finite |-> TRUE, n |-> 0]
    ELSE IF IsHexLiteral(val) THEN [finite |-> TRUE, n |-> ParseDigits(Drop(val, 2), 16, 0)]
    ELSE IF IsDecLiteral(val) THEN [finite |-> TRUE, n |-> ParseDigits(val, 10, 0)]
    ELSE [finite |-> FALSE, n |-> 0]

\* String.prototype.replaceAll(pat, rep): leftmost matches, left to right
RECURSIVE replaceAll(_, _, _)
replaceAll(s, pat, rep) ==
    IF s = <<>> \/ pat = <<>> THEN s
    ELSE IF StartsWith(s, pat) THEN rep \o replaceAll(Drop(s, Len(pat)), pat, rep)
    ELSE <<Head(s)>> \o replaceAll(Tail(s), pat, rep)

\* a | b of JavaScript on operands below 2^31
RECURSIVE BitOr(_, _)
BitOr(a, b) ==
    IF a = 0 THEN b
    ELSE IF b = 0 THEN a
    ELSE (IF a % 2 = 1 \/ b % 2 = 1 THEN 1 ELSE 0) + 2 * BitOr(a \div 2, b \div 2)

\* The lexer of eval: numeric literals, "(", ")", "|", the globals Infinity
\* and NaN; everything else is a word, which the expressions at hand cannot
\* contain without an error.
IsWordChar(c) == c \notin {" ", "(", ")", "|"}

RECURSIVE WordLen(_)
WordLen(s) == IF s = <<>> \/ ~IsWordChar(Head(s)) THEN 0 ELSE 1 + WordLen(Tail(s))

RECURSIVE Lex(_)
Lex(s) ==
    IF s = <<>> THEN <<>>
    ELSE IF Head(s) = " " THEN Lex(Tail(s))
    ELSE IF ~IsWordChar(Head(s)) THEN << [t |-> Head(s), n |-> 0] >> \o Lex(Tail(s))
    ELSE << (IF Number(Take(s, WordLen(s))).finite
             THEN [t |-> "num", n |-> Number(Take(s, WordLen(s))).n]
             ELSE IF Take(s, WordLen(s)) \in {S_Infinity, S_NaN} THEN [t |-> "nonfinite", n |-> 0]
             ELSE [t |-> "word", n |-> 0]) >> \o Lex(Drop(s, WordLen(s)))

\* The parser of eval for  expr ::= term ("|" term)* ,  term ::= num | "(" expr ")".
\* [ok, n, at, fin]: ok = FALSE is a SyntaxError or ReferenceError; at is the
\* next token; fin = FALSE is a value that is not finite.
RECURSIVE EvalExpr(_, _)
\* r: the expression inside a parenthesis; the ")" has to follow it
CloseParen(toks, r) ==
    IF ~r.ok THEN r
    ELSE IF r.at <= Len(toks) /\ toks[r.at].t = ")" THEN [r EXCEPT !.at = @ + 1]
    ELSE [ok |-> FALSE, n |-> 0, at |-> r.at, fin |-> TRUE]

EvalTerm(toks, at) ==
    IF at > Len(toks) THEN [ok |-> FALSE, n |-> 0, at |-> at, fin |-> TRUE]
    ELSE IF toks[at].t = "num" THEN [ok |-> TRUE, n |-> toks[at].n, at |-> at + 1, fin |-> TRUE]
    ELSE IF toks[at].t = "nonfinite" THEN [ok |-> TRUE, n |-> 0, at |-> at + 1, fin |-> FALSE]
    ELSE IF toks[at].t = "(" THEN CloseParen(toks, EvalExpr(toks, at + 1))
    ELSE [ok |-> FALSE, n |-> 0, at |-> at, fin |-> TRUE]

\* a | b takes NaN and Infinity as 0 and is finite
OrInto(left, r) == IF ~r.ok THEN r ELSE [r EXCEPT !.n = BitOr(left, r.n), !.fin = TRUE]

EvalTail(toks, r) ==
    IF ~r.ok THEN r
    ELSE IF r.at <= Len(toks) /\ toks[r.at].t = "|"
    THEN OrInto(r.n, EvalExpr(toks, r.at + 1))
    ELSE r

EvalExpr(toks, at) == EvalTail(toks, EvalTerm(toks, at))

\* eval(val): [threw, n, finite]
evalTokens(toks, r) == [threw |-> ~r.ok \/ r.at <= Len(toks), n |-> r.n, finite |-> r.fin]

eval(val) == evalTokens(Lex(val), EvalExpr(Lex(val), 1))

RECURSIVE HexChars(_)
HexChars(n) == IF n < 16 THEN <<HexDigits[n + 1]>> ELSE Append(HexChars(n \div 16), HexDigits[(n % 16) + 1])

\* pad(s, len, "0")
RECURSIVE pad(_, _)
pad(s, len) == IF Len(s) >= len THEN s ELSE pad(<<"0">> \o s, len)

\* formatHexConstant(val) for val >= 0
formatHexConstant(val) == <<"0", "x">> \o pad(HexChars(val), 8)

\* The inner for loop of convertEnumValuesToConstants, from entry i on
RECURSIVE substituteSiblings(_, _, _, _)
substituteSiblings(val, parentName, entries, i) ==
    IF i > Len(entries) THEN val
    ELSE substituteSiblings(
             replaceAll(val, parentName \o S_underscore \o entries[i].name,
                        <<"(">> \o entries[i].val \o <<")">>),
             parentName, entries, i + 1)

\* if (!isFinite(nVal)) nVal = 0, on the outcome e of eval
finiteOrZero(e) == [threw |-> e.threw, n |-> IF e.finite THEN e.n ELSE 0]

\* nVal of one entry: [threw, n]
constantOf(nVal, val, parentName, entries) ==
    IF nVal.finite THEN [threw |-> FALSE, n |-> nVal.n]
    ELSE finiteOrZero(eval(substituteSiblings(val, parentName, entries, 1)))

\* The outer for loop of convertEnumValuesToConstants, from entry i on: [threw, ret]
RECURSIVE convertFrom(_, _, _, _)
pushConstant(c, parentName, entries, i, ret) ==
    IF c.threw THEN [threw |-> TRUE, ret |-> ret]
    ELSE convertFrom(parentName, entries, i + 1,
                     Append(ret, [name |-> entries[i].name, val |-> formatHexConstant(c.n)]))

convertFrom(parentName, entries, i, ret) ==
    IF i > Len(entries) THEN [threw |-> FALSE, ret |-> ret]
    ELSE pushConstant(constantOf(Number(entries[i].val), entries[i].val, parentName, entries),
                      parentName, entries, i, ret)

convertEnumValuesToConstants(parentName, entries) == convertFrom(parentName, entries, 1, <<>>)

SPECIAL_MERGED_ENUMS ==
    << [key |-> S_WGPUNativeFeature, val |-> S_WGPUFeatureName],
       [key |-> S_WGPUNativeSType, val |-> S_WGPUSType] >>

\* A CEnum.mergeValues that puts every value on the sanitized list
RECURSIVE mergeValuesAll(_, _)
mergeValuesAll(d, values) ==
    IF values = <<>> THEN d
    ELSE mergeValuesAll(
             [d EXCEPT !.values = Append(@, Head(values)),
                       !.sanitized = Append(@, [name |-> sanitizeIdent(Head(values).name),
                                                val |-> Head(values).val])],
             Tail(values))

\* CEnum.mergeValues(values)
RECURSIVE mergeValues(_, _)
mergeValues(d, values) ==
    IF values = <<>> THEN d
    ELSE mergeValues(
             [d EXCEPT !.values = Append(@, Head(values)),
                       !.sanitized = IF Head(values).name # S_Force32
                                     THEN Append(@, [name |-> sanitizeIdent(Head(values).name),
                                                     val |-> Head(values).val])
                                     ELSE @],
             Tail(values))

\* new CEnum(cName, pyName, values)
CEnum(cName, pyName, values) == mergeValues(Descriptor("CEnum", "enum", cName, pyName), values)

\* const [a, b] = name.split("_"); b ?? a
fixedName(name) == IF Len(Split(name, "_")) >= 2 THEN Split(name, "_")[2] ELSE Split(name, "_")[1]

fixedEntries(entries) ==
    [i \in 1..Len(entries) |-> [name |-> fixedName(entries[i].name), val |-> entries[i].val]]

\* the entries of one enum body, body.split(",") being the sequence `body`
enumEntries(cName, body) ==
    onlyDefined([i \in 1..Len(body) |-> parseEnumEntry(cName, body[i])])

\* findEnums past convertEnumValuesToConstants, whose outcome is c: [error, types]
enumConverted(reg, cName, c) ==
    IF c.threw THEN [error |-> [kind |-> "eval", names |-> cName], types |-> reg]
    ELSE IF ~MapHas(SPECIAL_MERGED_ENUMS, cName)
    THEN [error |-> NoError,
          types |-> MapSet(reg, cName, CEnum(cName, toPyName(cName, TRUE), c.ret))]
    ELSE IF ~MapHas(reg, MapGet(SPECIAL_MERGED_ENUMS, cName))
    THEN [error |-> [kind |-> "TypeError", names |-> cName], types |-> reg]
    ELSE [error |-> NoError,
          types |-> MapSet(reg, MapGet(SPECIAL_MERGED_ENUMS, cName),
                           mergeValues(MapGet(reg, MapGet(SPECIAL_MERGED_ENUMS, cName)),
                                       fixedEntries(c.ret)))]

\* one match of findEnums: [error, types]
findEnum(reg, cName, body) ==
    enumConverted(reg, cName, convertEnumValuesToConstants(cName, enumEntries(cName, body)))

(***************************************************************************)
(* findEnums on a header that declares WGPUSType and, after it, extension  *)
(* enums WGPUNativeSType that are merged into it.                          *)
(***************************************************************************)
EntryPool == { E_X, E_Y, E_XY, E_Z, E_W, E_Force32, E_B, E_I }

ExtensionBodies ==
    { <<E_DeviceExtras, E_NativeForce32>>, <<E_Device_Extras, E_NativeForce32>> }

\* the sequences over S without a repeated element, up to length n
DistinctSeqsUpTo(S, n) ==
    { s \in SeqsUpTo(S, n) : \A i, j \in 1..Len(s) : s[i] = s[j] => i = j }

EnumDecls(bodies, cName) == [i \in 1..Len(bodies) |-> Decl("enum", cName, bodies[i], <<>>, <<>>)]

InitEnum ==
    /\ \E body \in DistinctSeqsUpTo(EntryPool, MaxEntries) \ {<<>>} :
       \E exts \in SeqsUpTo(ExtensionBodies, MaxMerges) :
          header = <<Decl("enum", S_WGPUSType, body, <<>>, <<>>)>>
                   \o EnumDecls(exts, S_WGPUNativeSType)
    /\ pc = "findEnums"
    /\ pos = 1
    /\ types = InitialTypes
    /\ wrappers = <<>>
    /\ looseFuncs = <<>>
    /\ pyFrags = <<>>
    /\ error = NoError
    /\ files = {}
    /\ lookups = <<>>
    /\ creates = <<>>
    /\ CleanIdle
    /\ StructIdle
    /\ FlagsIdle
    /\ ChainIdle
    /\ CBIdle
    /\ HandleIdle
    /\ WideIdle

\* the state after one match whose outcome is r
EnumStep(r) ==
    /\ types' = r.types
    /\ error' = r.error
    /\ pc' = IF r.error = NoError THEN pc ELSE "aborted"
    /\ pos' = IF r.error = NoError THEN pos + 1 ELSE pos

\* One iteration of the loop of findEnums
FindEnum ==
    /\ pc = "findEnums"
    /\ pos <= Len(header)
    /\ EnumStep(findEnum(types, header[pos].name, header[pos].body))
    /\ UNCHANGED <<header, wrappers, looseFuncs, pyFrags, files, lookups, creates>>
    /\ UNCHANGED outsideApi

\* The loop of findEnums is over
EnumsFound ==
    /\ pc = "findEnums"
    /\ pos > Len(header)
    /\ pc' = "enumsFound"
    /\ UNCHANGED <<header, pos, types, wrappers, looseFuncs, pyFrags, error, files,
                   lookups, creates>>
    /\ UNCHANGED outsideApi

NextEnum == FindEnum \/ EnumsFound

SpecEnum == InitEnum /\ [][NextEnum]_vars

(***************************************************************************)
(* Properties of findEnums (SpecEnum).                                     *)
(***************************************************************************)
HasValue(e) == Includes(e, "=")

NamePart(e) == Trim(Split(e, "=")[1])

ValuePart(e) == Trim(Split(e, "=")[2])

IsLiteralEntry(e) == HasValue(e) /\ Number(ValuePart(e)).finite

\* the operands of a value a | b | ...
OrOperands(e) ==
    [i \in 1..Len(Split(ValuePart(e), "|")) |-> Trim(Split(ValuePart(e), "|")[i])]

DeclaredBefore(body, k, name) ==
    \E j \in 1..(k - 1) : HasValue(body[j]) /\ NamePart(body[j]) = name

\* the value of entry k is an OR of full names of entries declared before it
IsOrOfSiblings(body, k) ==
    /\ HasValue(body[k])
    /\ ~IsLiteralEntry(body[k])
    /\ \A i \in 1..Len(OrOperands(body[k])) : DeclaredBefore(body, k, OrOperands(body[k])[i])

\* every entry of the body is a literal, an OR of earlier siblings, or has no value
PlainBody(body) ==
    \A k \in 1..Len(body) :
        HasValue(body[k]) => IsLiteralEntry(body[k]) \/ IsOrOfSiblings(body, k)

RECURSIVE SiblingValue(_, _)
RECURSIVE OrOfSiblings(_, _, _)
\* the numeric value of entry k of a plain body
SiblingValue(body, k) ==
    IF IsLiteralEntry(body[k]) THEN Number(ValuePart(body[k])).n
    ELSE OrOfSiblings(body, k, OrOperands(body[k]))

OrOfSiblings(body, k, operands) ==
    IF operands = <<>> THEN 0
    ELSE BitOr(SiblingValue(body, CHOOSE j \in 1..(k - 1) :
                                      HasValue(body[j]) /\ NamePart(body[j]) = Head(operands)),
               OrOfSiblings(body, k, Tail(operands)))

\* the name under which entry e of WGPUSType is kept
ShortName(e) == Drop(NamePart(e), Len(S_WGPUSType) + 1)

BaseBody == header[1].body

\* findEnums is past the declaration of WGPUSType
BaseEnumDone == pc \in {"aborted", "enumsFound"} \/ pos > 1

\* C5: every entry of an enum whose value is an OR of the full names of
\* entries declared before it is converted, without an error, to the bitwise
\* OR of the numeric values of those entries.
C5_OrOfSiblingValues ==
    (BaseEnumDone /\ PlainBody(BaseBody)) =>
        /\ MapHas(types, S_WGPUSType)
        /\ \A k \in 1..Len(BaseBody) :
              IsOrOfSiblings(BaseBody, k) =>
                 \E i \in 1..Len(MapGet(types, S_WGPUSType).values) :
                    /\ MapGet(types, S_WGPUSType).values[i].name = ShortName(BaseBody[k])
                    /\ MapGet(types, S_WGPUSType).values[i].val
                          = formatHexConstant(SiblingValue(BaseBody, k))

\* C5: the enum { X = 0x1, XY = 4, W = X | XY } has made findEnums throw
C5_PrefixNameThrows ==
    /\ pc = "aborted"
    /\ error.kind = "eval"
    /\ BaseBody = <<E_X, E_XY, E_W>>

\* the outcome of eval on the value of entry k after the substitution of siblings
EvalOfEntry(body, k) ==
    eval(substituteSiblings(ValuePart(body[k]), S_WGPUSType, enumEntries(S_WGPUSType, body), 1))

\* the value of entry k is no numeric literal and eval gives no finite number for it
Unevaluable(body, k) ==
    /\ HasValue(body[k])
    /\ ~IsLiteralEntry(body[k])
    /\ (EvalOfEntry(body, k).threw \/ ~EvalOfEntry(body, k).finite)

\* C13: a value expression that does not evaluate to a finite number never
\* stops the run; the entry gets the value zero and every other entry of the
\* enum is still converted and registered.
C13_FallbackToZero ==
    /\ pc # "aborted"
    /\ BaseEnumDone =>
          /\ MapHas(types, S_WGPUSType)
          /\ \A k \in 1..Len(BaseBody) :
                HasValue(BaseBody[k]) =>
                   \E i \in 1..Len(MapGet(types, S_WGPUSType).values) :
                      /\ MapGet(types, S_WGPUSType).values[i].name = ShortName(BaseBody[k])
                      /\ Unevaluable(BaseBody, k) =>
                            MapGet(types, S_WGPUSType).values[i].val = formatHexConstant(0)

\* C13: the enum { Y = 0x00000002, Z = WGPUSType_X | WGPUSType_Y }, whose
\* entry Z names an identifier that is no sibling, has made findEnums throw:
\* nothing of the enum is registered
C13_UnknownNameThrows ==
    /\ pc = "aborted"
    /\ error.kind = "eval"
    /\ BaseBody = <<E_Y, E_Z>>
    /\ ~MapHas(types, S_WGPUSType)

\* the enum { I = Infinity, Y = 0x00000002 }: eval gives a value that is not
\* finite, the entry falls back to zero and the run goes on
NonFiniteFallsBack ==
    /\ pc = "enumsFound"
    /\ BaseBody = <<E_I, E_Y>>
    /\ MapGet(types, S_WGPUSType).values
          = << [name |-> <<"I">>, val |-> formatHexConstant(0)],
               [name |-> <<"Y">>, val |-> formatHexConstant(2)] >>

\* the entries of the declarations findEnums has gone through
RECURSIVE EntriesOf(_, _)
EntriesOf(decls, n) == IF n = 0 THEN <<>> ELSE EntriesOf(decls, n - 1) \o decls[n].body

Processed == EntriesOf(header, pos - 1)

IsForce32Entry(e) == EndsWith(NamePart(e), S_Force32Entry)

\* the second "_"-separated piece of the entry's name
SecondPiece(e) == Split(NamePart(e), "_")[2]

EnumRegistered == pc # "aborted" /\ MapHas(types, S_WGPUSType)

\* C6 as stated: the sanitized list has no variant named Force32 and has
\* every other declared entry: N entries give N-1 variants when Force32 is
\* among them and N when it is not.
C6_AllButForce32 ==
    EnumRegistered =>
        /\ \A i \in 1..Len(MapGet(types, S_WGPUSType).sanitized) :
              MapGet(types, S_WGPUSType).sanitized[i].name # S_Force32
        /\ Len(MapGet(types, S_WGPUSType).sanitized)
              = Cardinality({k \in 1..Len(Processed) : ~IsForce32Entry(Processed[k])})

KeptEntries == SelectSeq(Processed, LAMBDA e : HasValue(e) /\ ~IsForce32Entry(e))

\* C6 amended: after construction and after every mergeValues call the
\* sanitized list has no variant named Force32 and has, once each and in
\* declaration order, the declared entries of the form NAME = VALUE other
\* than Force32; entries without "=" are not in it.
C6_AllValuedButForce32 ==
    EnumRegistered =>
        LET kept == KeptEntries
            enum == MapGet(types, S_WGPUSType)
        IN /\ \A i \in 1..Len(enum.sanitized) : enum.sanitized[i].name # S_Force32
           /\ Len(enum.sanitized) = Len(kept)
           /\ \A i \in 1..Len(kept) :
                 enum.sanitized[i].name = sanitizeIdent(SecondPiece(kept[i]))
           /\ Len(enum.values) = Len(SelectSeq(Processed, HasValue))

\* C6 witness: WGPUSType { X, B (no value), Force32 } and two merged
\* extensions with their own Force32 have left the variants X, DeviceExtras
\* and Device
C6_Witness ==
    /\ pc = "enumsFound"
    /\ BaseBody = <<E_X, E_B, E_Force32>>
    /\ Len(header) = 3
    /\ header[2].body = <<E_DeviceExtras, E_NativeForce32>>
    /\ header[3].body = <<E_Device_Extras, E_NativeForce32>>
    /\ Len(MapGet(types, S_WGPUSType).sanitized) = 3
    /\ Len(MapGet(types, S_WGPUSType).values) = 6

\* the example of the documentation: X = 0x1, Y = 0x2, Z = X | Y gives 0x3
OrExampleConverted ==
    /\ BaseBody = <<E_X, E_Y, E_Z>>
    /\ pc = "enumsFound"
    /\ MapGet(types, S_WGPUSType).values[3].val = <<"0", "x", "0", "0", "0", "0", "0", "0", "0", "3">>

\* the entry's name without its first "_"-separated piece and that "_"
AfterFirstUnderscore(e) == Drop(NamePart(e), Len(Split(NamePart(e), "_")[1]) + 1)

HasVariant(enum, name, val) ==
    \E i \in 1..Len(enum.values) : enum.values[i].name = name /\ enum.values[i].val = val

\* C20: every entry of an extension enum that findEnums has merged is in the
\* base enum with its numeric value and with its name cut after the first
\* underscore, all text after that underscore kept; the extension enum is
\* not registered.
C20_MergedNameAndValue ==
    pc # "aborted" =>
        /\ ~MapHas(types, S_WGPUNativeSType)
        /\ \A d \in 2..(pos - 1) :
              \A k \in 1..Len(header[d].body) :
                 HasValue(header[d].body[k]) =>
                    HasVariant(MapGet(types, S_WGPUSType),
                               AfterFirstUnderscore(header[d].body[k]),
                               formatHexConstant(Number(ValuePart(header[d].body[k])).n))

\* C20: the extension entry WGPUSType_Device_Extras = 0x00030002 has been
\* merged under the name Device, its second piece only
C20_NameCutShort ==
    /\ pc = "enumsFound"
    /\ Len(header) = 2
    /\ header[2].body = <<E_Device_Extras, E_NativeForce32>>
    /\ HasVariant(MapGet(types, S_WGPUSType), <<"D", "e", "v", "i", "c", "e">>,
                  <<"0", "x", "0", "0", "0", "3", "0", "0", "0", "2">>)
    /\ \A i \in 1..Len(MapGet(types, S_WGPUSType).values) :
          MapGet(types, S_WGPUSType).values[i].name # AfterFirstUnderscore(E_Device_Extras)

(***************************************************************************)
(* _addStruct seen one loop iteration at a time: the struct classifier on  *)
(* one struct body, with WGPUBuffer registered as an opaque handle.        *)
(***************************************************************************)
\* the entries a body is made of: body.split(";"), each split on " "
FieldPool ==
    { <<S_size_t, S_entryCount>>,
      <<S_uint32_t, S_entryCount>>,
      <<S_size_t, S_itemCount>>,
      <<S_WGPUBuffer, S_const, S_star, S_entries>>,
      <<S_uint32_t, S_const, S_star, S_items>>,
      <<S_WGPU_NULLABLE, S_WGPUBuffer, S_buffer>>,
      <<S_WGPU_NULLABLE, S_WGPUBuffer, S_star, S_buffer>>,
      <<S_WGPUBuffer, S_buffer>>,
      <<S_WGPUChainedStruct, S_const, S_star, S_nextInChain>>,
      <<S_WGPUProc, S_callback>>,
      <<S_void, S_star, S_userdata>>,
      <<S_uint32_t, S_size>>,
      <<S_WGPUChainedStruct, S_chain>>,
      <<S_WGPUChainedStruct, S_descriptor>>,
      <<S_WGPUChainedStruct, S_const, S_star, S_chain>> }

TypesWithBuffer == MapSet(InitialTypes, S_WGPUBuffer, COpaque(S_WGPUBuffer, toPyName(S_WGPUBuffer, TRUE)))

\* the registry once _addStruct has also run on WGPUChainedStruct, which
\* webgpu.h declares ahead of the structs that embed it
TypesWithChain ==
    addStruct([types |-> TypesWithBuffer, wrappers |-> <<>>, looseFuncs |-> <<>>,
               lookups |-> <<>>, creates |-> <<>>],
              S_WGPUChainedStruct,
              << <<S_struct, S_WGPUChainedStruct, S_const, S_star, S_next>>,
                 <<S_WGPUSType, S_sType>> >>).api.types

InitStruct ==
    /\ \E body \in SeqsUpTo(FieldPool, MaxFields) :
          /\ header = << Decl("struct", S_WGPUBufferDescriptor, body, <<>>, <<>>) >>
          /\ sRawFields = [i \in 1..Len(body) |-> parseTypedIdent(body[i])]
    /\ sFields = <<>>
    /\ pc = "addStruct"
    /\ pos = 1
    /\ types = TypesWithChain
    /\ wrappers = <<>>
    /\ looseFuncs = <<>>
    /\ pyFrags = <<>>
    /\ error = NoError
    /\ files = {}
    /\ lookups = <<>>
    /\ creates = <<>>
    /\ CleanIdle
    /\ FlagsIdle
    /\ ChainIdle
    /\ CBIdle
    /\ HandleIdle
    /\ WideIdle

\* the state after one loop iteration whose outcome is s
FieldStep(s) ==
    /\ pos' = s.pos
    /\ sFields' = s.fields
    /\ types' = s.api.types
    /\ wrappers' = s.api.wrappers
    /\ lookups' = s.api.lookups
    /\ creates' = s.api.creates

\* One iteration of the while loop of _addStruct
ClassifyField ==
    /\ pc = "addStruct"
    /\ pos <= Len(sRawFields)
    /\ FieldStep(classifyStep(Api, sRawFields, pos, sFields, header[1].name))
    /\ UNCHANGED <<header, pc, sRawFields, looseFuncs, pyFrags, error, files>>
    /\ UNCHANGED outsideStruct

\* The end of _addStruct: this.types.set(cName, new CStruct(...))
RegisterStruct ==
    /\ pc = "addStruct"
    /\ pos > Len(sRawFields)
    /\ types' = registerStruct([api |-> Api, ret |-> sFields], header[1].name).api.types
    /\ pc' = "structAdded"
    /\ lookups' = <<>>
    /\ UNCHANGED <<header, pos, sRawFields, sFields, wrappers, looseFuncs, pyFrags, error,
                   files, creates>>
    /\ UNCHANGED outsideStruct

NextStruct == ClassifyField \/ RegisterStruct

SpecStruct == InitStruct /\ [][NextStruct]_vars

(***************************************************************************)
(* Properties of the struct classifier (SpecStruct).                       *)
(***************************************************************************)
\* the entries of the body as the header spells them
BodyEntry(i) == header[1].body[i]

EntryName(e) == e[Len(e)]

HasToken(e, tok) == \E k \in 1..(Len(e) - 1) : e[k] = tok

\* the name is <prefix>Count
IsCountName(n) == Len(n) >= Len(S_Count) /\ SubSeq(n, Len(n) - Len(S_Count) + 1, Len(n)) = S_Count

CountPrefix(n) == SubSeq(n, 1, Len(n) - Len(S_Count))

\* n is prefix + "s", or stem + "ies" for a prefix stem + "y"
IsPluralForm(n, prefix) ==
    \/ n = prefix \o <<"s">>
    \/ /\ prefix # <<>>
       /\ prefix[Len(prefix)] = "y"
       /\ n = SubSeq(prefix, 1, Len(prefix) - 1) \o <<"i", "e", "s">>

\* count entry c and array entry a go together by their names
NamesPair(c, a) ==
    IsCountName(EntryName(c)) /\ IsPluralForm(EntryName(a), CountPrefix(EntryName(c)))

\* the step examines a field that has a successor
PairStep == pc = "addStruct" /\ pos + 1 <= Len(sRawFields)

\* the step has made one ArrayField of the two fields it examined
FusedArray ==
    /\ pos' = pos + 2
    /\ Len(sFields') = Len(sFields) + 1
    /\ sFields'[Len(sFields')].unit = "ArrayField"

\* the step has made a unit of the first field alone
KeptApart ==
    /\ pos' = pos + 1
    /\ Len(sFields') = Len(sFields) + 1
    /\ sFields'[Len(sFields')].unit \in {"PointerField", "ValueField"}
    /\ sFields'[Len(sFields')].name = EntryName(BodyEntry(pos))

\* C3 as stated: two adjacent fields are fused into one ArrayField exactly
\* when the name of one is <prefix>Count and the name of the other a plural
\* of <prefix>; in every other case no ArrayField is made of them.
C3_FusedIffNames ==
    [][PairStep =>
        IF \/ NamesPair(BodyEntry(pos), BodyEntry(pos + 1))
           \/ NamesPair(BodyEntry(pos + 1), BodyEntry(pos))
        THEN FusedArray
        ELSE ~FusedArray
    ]_vars

IsSizeTCount(e) == IsCountName(EntryName(e)) /\ HasToken(e, S_size_t)

ListPair(e0, e1) ==
    \/ IsSizeTCount(e0) /\ NamesPair(e0, e1)
    \/ IsSizeTCount(e1) /\ NamesPair(e1, e0)

CallbackPair(e0, e1) ==
    /\ EndsWith(toLowerCase(EntryName(e0)), S_callback)
    /\ EndsWith(toLowerCase(EntryName(e1)), S_userdata)

\* C3 amended: the two fields the scan examines are fused into one ArrayField
\* exactly when one of them is a size_t field named <prefix>Count and the
\* other's name is a plural of <prefix>, in either order; otherwise, unless
\* they are a callback and its userdata, the first becomes a unit of its own
\* and the scan moves on to the second.
C3_FusedIffSizeTCount ==
    [][PairStep =>
        IF ListPair(BodyEntry(pos), BodyEntry(pos + 1))
        THEN /\ FusedArray
             /\ sFields'[Len(sFields')].name \in
                   {EntryName(BodyEntry(pos)), EntryName(BodyEntry(pos + 1))}
             /\ sFields'[Len(sFields')].other \in
                   {EntryName(BodyEntry(pos)), EntryName(BodyEntry(pos + 1))}
             /\ IsCountName(sFields'[Len(sFields')].other)
        ELSE /\ ~FusedArray
             /\ ~CallbackPair(BodyEntry(pos), BodyEntry(pos + 1)) => KeptApart
    ]_vars

\* C3 witness: the struct is registered; `uint32_t entryCount` was not fused
\* with `entries`, which was then fused with the `size_t entryCount` after it
C3_Witness ==
    /\ pc = "structAdded"
    /\ header[1].body = << <<S_uint32_t, S_entryCount>>,
                           <<S_WGPUBuffer, S_const, S_star, S_entries>>,
                           <<S_size_t, S_entryCount>> >>
    /\ Len(sFields) = 2
    /\ sFields[1].unit = "ValueField"
    /\ sFields[1].name = S_entryCount
    /\ sFields[2].unit = "ArrayField"
    /\ sFields[2].name = S_entries
    /\ sFields[2].other = S_entryCount

\* the step handles the field at pos on its own, through _createField
CreateFieldStep ==
    /\ pc = "addStruct"
    /\ pos <= Len(sRawFields)
    /\ pos' = pos + 1

NamesOpaqueType(e) ==
    \E i \in 1..Len(types) : types[i].val.cls = "COpaque" /\ HasToken(e, types[i].key)

NamesChainType(e) ==
    \E k \in 1..(Len(e) - 1) : StartsWith(e[k], S_WGPUChainedStruct)

\* C7: a field handled by _createField that carries WGPU_NULLABLE and whose
\* type is a registered opaque handle becomes a PointerField with nullable =
\* true, with or without a `*`; a `*` field whose type name begins with
\* WGPUChainedStruct becomes a nullable PointerField without the qualifier.
C7_NullablePointerField ==
    [][CreateFieldStep =>
        /\ (HasToken(BodyEntry(pos), S_WGPU_NULLABLE) /\ NamesOpaqueType(BodyEntry(pos)))
           => /\ sFields'[Len(sFields')].unit = "PointerField"
              /\ sFields'[Len(sFields')].nullable = TRUE
              /\ sFields'[Len(sFields')].name = EntryName(BodyEntry(pos))
        /\ (HasToken(BodyEntry(pos), S_star) /\ NamesChainType(BodyEntry(pos)))
           => /\ sFields'[Len(sFields')].unit = "PointerField"
              /\ sFields'[Len(sFields')].nullable = TRUE
              /\ sFields'[Len(sFields')].name = EntryName(BodyEntry(pos))
    ]_vars

\* C7 witness: `WGPU_NULLABLE WGPUBuffer buffer` (no `*`) and the chain
\* pointer (no qualifier) have both become nullable PointerFields
C7_Witness ==
    /\ pc = "structAdded"
    /\ header[1].body = << <<S_WGPU_NULLABLE, S_WGPUBuffer, S_buffer>>,
                           <<S_WGPUChainedStruct, S_const, S_star, S_nextInChain>> >>
    /\ Len(sFields) = 2
    /\ \A i \in 1..2 : sFields[i].unit = "PointerField" /\ sFields[i].nullable

\* the step is one iteration of the while loop of _addStruct
ScanStep == pc = "addStruct" /\ pos <= Len(sRawFields)

NewUnit == sFields'[Len(sFields')]

\* the raw field after the last one that the units, laid over the body from
\* entry `at` on in their order, consume; 0 when a unit does not fit the
\* entries it lies on
RECURSIVE UnitsEnd(_, _)
UnitsEnd(units, at) ==
    IF units = <<>> THEN at
    ELSE IF Head(units).unit \in {"ArrayField", "CallbackField"}
    THEN IF /\ at + 1 <= Len(header[1].body)
            /\ {Head(units).name, Head(units).other}
                  = {EntryName(BodyEntry(at)), EntryName(BodyEntry(at + 1))}
         THEN UnitsEnd(Tail(units), at + 2)
         ELSE 0
    ELSE IF at <= Len(header[1].body) /\ Head(units).name = EntryName(BodyEntry(at))
    THEN UnitsEnd(Tail(units), at + 1)
    ELSE 0

\* C17: every iteration of the scan appends exactly one unit and leaves the
\* earlier units as they are; when the fields at pos and pos + 1 are an
\* array pair the unit is an ArrayField, else when they are a callback and
\* its userdata a CallbackField, and the scan resumes at pos + 2; otherwise
\* the field at pos becomes a unit of its own and the scan resumes at
\* pos + 1.  The units made so far consume the raw fields before pos, each
\* once and in order, and pos grows with every iteration up to the end.
C17_GreedyScan ==
    [][ScanStep =>
        /\ Len(sFields') = Len(sFields) + 1
        /\ SubSeq(sFields', 1, Len(sFields)) = sFields
        /\ sRawFields' = sRawFields
        /\ IF pos + 1 <= Len(sRawFields) /\ ListPair(BodyEntry(pos), BodyEntry(pos + 1))
           THEN pos' = pos + 2 /\ NewUnit.unit = "ArrayField"
           ELSE IF pos + 1 <= Len(sRawFields) /\ CallbackPair(BodyEntry(pos), BodyEntry(pos + 1))
           THEN /\ pos' = pos + 2
                /\ NewUnit.unit = "CallbackField"
                /\ NewUnit.name = EntryName(BodyEntry(pos))
                /\ NewUnit.other = EntryName(BodyEntry(pos + 1))
           ELSE /\ pos' = pos + 1
                /\ NewUnit.unit \in {"PointerField", "ValueField"}
                /\ NewUnit.name = EntryName(BodyEntry(pos))
        /\ pos' <= Len(sRawFields) + 1
        /\ UnitsEnd(sFields, 1) = pos
        /\ UnitsEnd(sFields', 1) = pos'
    ]_vars

\* C17 witness: in (size_t entryCount, entries, size_t entryCount) the first
\* two fields were fused and the second count was left a unit of its own
C17_Witness ==
    /\ pc = "structAdded"
    /\ header[1].body = << <<S_size_t, S_entryCount>>,
                           <<S_WGPUBuffer, S_const, S_star, S_entries>>,
                           <<S_size_t, S_entryCount>> >>
    /\ Len(sFields) = 2
    /\ sFields[1].unit = "ArrayField"
    /\ sFields[2].unit = "ValueField"
    /\ sFields[2].name = S_entryCount

\* the descriptor the registry has for the type that entry e names
ElementType(e) == getType(Api, parseTypedIdent(e).type.inner).ret

\* C18: when of the two fields the scan examines one is a size_t field
\* <prefix>Count and the other is named as a plural of <prefix>, the step
\* makes the same ArrayField whichever of the two comes first: its name is
\* the array's, its count name the count's, its element type the array's.
C18_EitherOrder ==
    [][PairStep =>
        /\ (IsSizeTCount(BodyEntry(pos)) /\ NamesPair(BodyEntry(pos), BodyEntry(pos + 1)))
           => /\ FusedArray
              /\ NewUnit = ArrayField(EntryName(BodyEntry(pos + 1)), EntryName(BodyEntry(pos)),
                                      ElementType(BodyEntry(pos + 1)))
        /\ (IsSizeTCount(BodyEntry(pos + 1)) /\ NamesPair(BodyEntry(pos + 1), BodyEntry(pos)))
           => /\ FusedArray
              /\ NewUnit = ArrayField(EntryName(BodyEntry(pos)), EntryName(BodyEntry(pos + 1)),
                                      ElementType(BodyEntry(pos)))
    ]_vars

\* C18 witness: (entries, size_t entryCount), the array first, has become the
\* one ArrayField that (size_t entryCount, entries) gives
C18_Witness ==
    /\ pc = "structAdded"
    /\ header[1].body = << <<S_WGPUBuffer, S_const, S_star, S_entries>>,
                           <<S_size_t, S_entryCount>> >>
    /\ sFields = << ArrayField(S_entries, S_entryCount, MapGet(types, S_WGPUBuffer)) >>
    /\ sFields = classifyFields(Api, << parseTypedIdent(<<S_size_t, S_entryCount>>),
                                        parseTypedIdent(<<S_WGPUBuffer, S_const, S_star, S_entries>>) >>,
                                1, <<>>, S_WGPUBufferDescriptor).ret

\* the registered type that the raw field at pos resolves to
ResolvedKind == getType(Api, sRawFields[pos].type.inner).ret.kind

ExplicitPointer == sRawFields[pos].type.explicitPointer

\* C21 as stated: a raw field that no fusion rule consumes becomes a
\* PointerField when it has an explicit pointer or resolves to an opaque
\* handle or a struct, and a ValueField when it resolves to a primitive or
\* an enum and has no explicit pointer.
C21_KindAndPointerWithStruct ==
    [][CreateFieldStep =>
        /\ (ExplicitPointer \/ ResolvedKind \in {"opaque", "struct"})
              => NewUnit.unit = "PointerField"
        /\ (~ExplicitPointer /\ ResolvedKind \in {"primitive", "enum"})
              => NewUnit.unit = "ValueField"
    ]_vars

\* C21 amended: the field becomes a PointerField exactly when it has an
\* explicit pointer or resolves to an opaque type, and a ValueField
\* otherwise: a struct held by value is a ValueField. In both cases the unit
\* carries the field's name and the resolved type.
C21_KindAndPointer ==
    [][CreateFieldStep =>
        /\ NewUnit.unit =
              IF ExplicitPointer \/ ResolvedKind = "opaque"
              THEN "PointerField" ELSE "ValueField"
        /\ NewUnit.name = sRawFields[pos].name
        /\ NewUnit.ctype = Ref(getType(Api, sRawFields[pos].type.inner).ret)
    ]_vars

\* A struct held by value, a handle without `*` and a primitive with `*`
\* have been classified: ValueField, PointerField, PointerField.
C21_Witness ==
    /\ pc = "structAdded"
    /\ header[1].body = << <<S_WGPUChainedStruct, S_descriptor>>,
                           <<S_WGPUBuffer, S_buffer>>,
                           <<S_void, S_star, S_userdata>> >>
    /\ Len(sFields) = 3
    /\ sFields[1].unit = "ValueField"
    /\ sFields[1].ctype.kind = "struct"
    /\ sFields[2].unit = "PointerField"
    /\ sFields[2].ctype.kind = "opaque"
    /\ sFields[3].unit = "PointerField"
    /\ sFields[3].ctype.kind = "primitive"

\* the struct that _addStruct has registered
AddedStruct == MapGet(types, header[1].name)

\* the first declared field is a chain link held by value
FirstIsChainLinkByValue ==
    /\ Len(sRawFields) > 0
    /\ StartsWith(sRawFields[1].type.inner, S_WGPUChainedStruct)
    /\ ~sRawFields[1].type.explicitPointer

IsChainLinkUnit(f) ==
    StartsWith(f.ctype.cName, S_WGPUChainedStruct) /\ f.unit = "ValueField"

\* C22: for the registered struct chainable() is defined; its public field
\* units are all its units but the first exactly when its first field is a
\* chain link held by value, and all its units otherwise; and the public
\* units of a chainable struct hold no chain link.
C22_PublicFieldsDropChainLink ==
    pc = "structAdded" =>
        /\ ~chainableThrows(AddedStruct)
        /\ publicFields(AddedStruct) =
              IF FirstIsChainLinkByValue THEN Tail(AddedStruct.fields)
              ELSE AddedStruct.fields
        /\ chainable(AddedStruct) =>
              \A i \in 1..Len(publicFields(AddedStruct)) :
                  ~IsChainLinkUnit(publicFields(AddedStruct)[i])

\* A struct whose first field is the pointer `WGPUChainedStruct const * chain`
\* is chainable, and the pointer is left out of its public fields.
C22_ChainPointerDropped ==
    /\ pc = "structAdded"
    /\ header[1].body = << <<S_WGPUChainedStruct, S_const, S_star, S_chain>>,
                           <<S_uint32_t, S_size>> >>
    /\ AddedStruct.fields[1].unit = "PointerField"
    /\ chainable(AddedStruct)
    /\ FieldNames(publicFields(AddedStruct)) = <<S_size>>

\* A struct whose first field is a chain link held by value under another
\* name is not chainable: the link stays among the public fields.
C22_ChainLinkOtherName ==
    /\ pc = "structAdded"
    /\ header[1].body = << <<S_WGPUChainedStruct, S_descriptor>>, <<S_uint32_t, S_size>> >>
    /\ ~chainable(AddedStruct)
    /\ FieldNames(publicFields(AddedStruct)) = <<S_descriptor, S_size>>

\* A struct with an empty body is registered without units: chainable()
\* reads fields[0] and throws.
C22_NoFieldsThrows ==
    /\ pc = "structAdded"
    /\ header[1].body = <<>>
    /\ chainableThrows(AddedStruct)

\* `WGPUChainedStruct chain` first: chainable, and the public fields are the rest.
C22_ChainByValueDropped ==
    /\ pc = "structAdded"
    /\ header[1].body = << <<S_WGPUChainedStruct, S_chain>>, <<S_uint32_t, S_size>> >>
    /\ chainable(AddedStruct)
    /\ FieldNames(publicFields(AddedStruct)) = <<S_size>>

(***************************************************************************)
(* The flags class that CFlags.emit writes, run on the Python side: a      *)
(* flags value is made from a list of enum members and then iterated.      *)
(***************************************************************************)
\* the IntEnum classes the flags are made of: members in declaration order
ColorWriteMask ==
    << [name |-> "None", val |-> 0], [name |-> "Red", val |-> 1],
       [name |-> "Green", val |-> 2], [name |-> "Blue", val |-> 4],
       [name |-> "Alpha", val |-> 8], [name |-> "All", val |-> 15] >>

BufferUsage ==
    << [name |-> "None", val |-> 0], [name |-> "MapRead", val |-> 1],
       [name |-> "MapWrite", val |-> 2], [name |-> "CopySrc", val |-> 4],
       [name |-> "CopyDst", val |-> 8] >>

FlagEnums == { ColorWriteMask, BufferUsage }

\* a & b of Python on operands >= 0
RECURSIVE BitAnd(_, _)
BitAnd(a, b) ==
    IF a = 0 \/ b = 0 THEN 0
    ELSE (IF a % 2 = 1 /\ b % 2 = 1 THEN 1 ELSE 0) + 2 * BitAnd(a \div 2, b \div 2)

\* sum(S) of a set of integers
RECURSIVE SumOf(_)
SumOf(S) == IF S = {} THEN 0 ELSE LET x == CHOOSE x \in S : TRUE IN x + SumOf(S \ {x})

\* __init__(self, flags) for a list: self.value = sum(set(flags)); the set
\* holds each IntEnum value once
flagsInit(flags) == SumOf({ flags[i].val : i \in 1..Len(flags) })

\* `for v in Enum`: the members in declaration order, aliases left out
enumMembers(enum) ==
    SelectSeq([i \in 1..Len(enum) |-> [m |-> enum[i],
                                      alias |-> \E j \in 1..(i - 1) : enum[j].val = enum[i].val]],
              LAMBDA x : ~x.alias)

\* __iter__(self): [raised, ret]; Enum(0) raises ValueError without a member 0
flagsIter(value, enum) ==
    IF value = 0
    THEN IF \E i \in 1..Len(enum) : enum[i].val = 0
         THEN [raised |-> FALSE,
               ret |-> << enum[CHOOSE i \in 1..Len(enum) :
                                 enum[i].val = 0 /\ \A j \in 1..(i - 1) : enum[j].val # 0] >>]
         ELSE [raised |-> TRUE, ret |-> <<>>]
    ELSE [raised |-> FALSE,
          ret |-> [k \in 1..Len(SelectSeq(enumMembers(enum),
                                          LAMBDA x : BitAnd(value, x.m.val) > 0)) |->
                      SelectSeq(enumMembers(enum), LAMBDA x : BitAnd(value, x.m.val) > 0)[k].m]]

InitFlags ==
    /\ fEnum \in FlagEnums
    /\ \E idx \in DistinctSeqsUpTo(1..Len(fEnum), MaxFlags) :
          fList = [i \in 1..Len(idx) |-> fEnum[idx[i]]]
    /\ fValue = 0
    /\ fIter = <<>>
    /\ fPc = "new"
    /\ ApiIdle
    /\ CleanIdle
    /\ StructIdle
    /\ ChainIdle
    /\ CBIdle
    /\ HandleIdle
    /\ WideIdle

\* flags = XFlags(fList)
FlagsConstruct ==
    /\ fPc = "new"
    /\ fValue' = flagsInit(fList)
    /\ fPc' = "constructed"
    /\ UNCHANGED <<fEnum, fList, fIter>>
    /\ UNCHANGED outsideFlags

\* list(flags)
FlagsIterate ==
    /\ fPc = "constructed"
    /\ fIter' = flagsIter(fValue, fEnum).ret
    /\ fPc' = IF flagsIter(fValue, fEnum).raised THEN "raised" ELSE "iterated"
    /\ UNCHANGED <<fEnum, fList, fValue>>
    /\ UNCHANGED outsideFlags

NextFlags == FlagsConstruct \/ FlagsIterate

SpecFlags == InitFlags /\ [][NextFlags]_vars

(***************************************************************************)
(* Properties of the emitted flags class (SpecFlags).                      *)
(***************************************************************************)
RECURSIVE OrOfValues(_)
OrOfValues(ms) == IF ms = <<>> THEN 0 ELSE BitOr(Head(ms).val, OrOfValues(Tail(ms)))

\* the members of the list, in the order the enum declares them
InDeclarationOrder(enum, ms) == SelectSeq(enum, LAMBDA m : \E i \in 1..Len(ms) : ms[i] = m)

\* C4: a flags value made from a duplicate-free list of members iterates to
\* exactly those members, in declaration order, and its int value is the
\* bitwise OR of their values.
C4_RoundTrip ==
    /\ fPc # "raised"
    /\ fPc \in {"constructed", "iterated"} => fValue = OrOfValues(fList)
    /\ fPc = "iterated" => fIter = InDeclarationOrder(fEnum, fList)

\* C4: ColorWriteMaskFlags([Red, All]) has the value 16 and iterates to nothing
C4_OverlapLost ==
    /\ fPc = "iterated"
    /\ fEnum = ColorWriteMask
    /\ fList = << [name |-> "Red", val |-> 1], [name |-> "All", val |-> 15] >>
    /\ fValue = 16
    /\ fIter = <<>>

(***************************************************************************)
(* Lexical cleanup: codegen/stringmanip.ts cleanHeader and discardProcs.   *)
(***************************************************************************)
SKIP_MARKER == "WGPU_SKIP_PROCS"

EMPTY_DEFINES ==
    { "WGPU_OBJECT_ATTRIBUTE", "WGPU_ENUM_ATTRIBUTE", "WGPU_STRUCTURE_ATTRIBUTE",
      "WGPU_FUNCTION_ATTRIBUTE", "WGPU_NULLABLE", "WGPU_EXPORT" }

\* The kinds of header line the cleanup distinguishes.
LinePool ==
    { <<"#", "if", "!defined", SKIP_MARKER>>,
      <<"#", "endif", "//", SKIP_MARKER>>,
      <<" ", "#", "define", "X">>,
      <<"extern \"C\"", "{">>,
      <<"WGPU_EXPORT", "void", "f();">>,
      <<>> }

\* line.includes(tok)
LineIncludes(line, tok) == \E i \in 1..Len(line) : line[i] = tok

\* deleteStrings(line, deletions): every occurrence of a deleted token goes
RECURSIVE deleteStrings(_, _)
deleteStrings(line, deletions) ==
    IF line = <<>> THEN <<>>
    ELSE IF Head(line) \in deletions THEN deleteStrings(Tail(line), deletions)
    ELSE <<Head(line)>> \o deleteStrings(Tail(line), deletions)

\* The position discardProcs leaves state.pos at, started at the marker line
\* `pos`: the next line that includes the marker, or Len(lines) + 1 when the
\* while loop runs off the end of the input (it then returns normally).
RECURSIVE ScanToMarker(_, _)
ScanToMarker(lines, p) ==
    IF p > Len(lines) THEN p
    ELSE IF LineIncludes(lines[p], SKIP_MARKER) THEN p
    ELSE ScanToMarker(lines, p + 1)

\* discardProcs(state): it throws when lines[pos] is not a marker line; else
\* state.pos ends on the next marker line or past the last line
discardProcs(lines, at) ==
    [threw |-> ~LineIncludes(lines[at], SKIP_MARKER), pos |-> ScanToMarker(lines, at + 1)]

\* frags.join("\n")
RECURSIVE JoinLines(_)
JoinLines(frags) ==
    IF frags = <<>> THEN <<>>
    ELSE IF Len(frags) = 1 THEN frags[1]
    ELSE frags[1] \o <<"\n">> \o JoinLines(Tail(frags))

\* text.replaceAll(/\n[\n]+/g, "\n\n"): a run of two or more newlines becomes two
RECURSIVE SkipNewlines(_)
SkipNewlines(text) ==
    IF text # <<>> /\ Head(text) = "\n" THEN SkipNewlines(Tail(text)) ELSE text

RECURSIVE CollapseNewlines(_)
CollapseNewlines(text) ==
    IF text = <<>> THEN <<>>
    ELSE IF Head(text) = "\n" /\ Len(text) >= 2 /\ text[2] = "\n"
         THEN <<"\n", "\n">> \o CollapseNewlines(SkipNewlines(text))
         ELSE <<Head(text)>> \o CollapseNewlines(Tail(text))

InitClean ==
    /\ ApiIdle
    /\ StructIdle
    /\ FlagsIdle
    /\ ChainIdle
    /\ CBIdle
    /\ HandleIdle
    /\ WideIdle
    /\ cLines \in SeqsUpTo(LinePool, MaxLines)
    /\ cPos = 1
    /\ cFrags = <<>>
    /\ cStatus = "running"
    /\ cOut = <<>>

\* One iteration of cleanHeader's while loop.
CleanStep ==
    /\ cStatus = "running"
    /\ cPos <= Len(cLines)
    /\ LET rawline == cLines[cPos]
           line == Trim(rawline)
       IN  IF LineIncludes(line, SKIP_MARKER)
           THEN IF discardProcs(cLines, cPos).threw
                THEN /\ cStatus' = "threw"
                     /\ UNCHANGED <<cPos, cFrags>>
                ELSE /\ cPos' = discardProcs(cLines, cPos).pos + 1
                     /\ UNCHANGED <<cFrags, cStatus>>
           ELSE IF line # <<>> /\ Head(line) = "#"
           THEN /\ cPos' = cPos + 1
                /\ UNCHANGED <<cFrags, cStatus>>
           ELSE IF LineIncludes(line, "extern \"C\"")
           THEN /\ cPos' = cPos + 1
                /\ UNCHANGED <<cFrags, cStatus>>
           ELSE /\ cFrags' = Append(cFrags, deleteStrings(rawline, EMPTY_DEFINES))
                /\ cPos' = cPos + 1
                /\ UNCHANGED cStatus
    /\ UNCHANGED <<cLines, cOut>>
    /\ UNCHANGED outsideClean

\* The loop is over: join the kept lines and collapse blank runs.
CleanReturn ==
    /\ cStatus = "running"
    /\ cPos > Len(cLines)
    /\ cStatus' = "returned"
    /\ cOut' = CollapseNewlines(JoinLines(cFrags))
    /\ UNCHANGED <<cLines, cPos, cFrags>>
    /\ UNCHANGED outsideClean

NextClean == CleanStep \/ CleanReturn

SpecClean == InitClean /\ [][NextClean]_vars

(***************************************************************************)
(* Properties of the lexical cleanup (SpecClean).                          *)
(***************************************************************************)
IsSkipStart(line) == Trim(line) = <<"#", "if", "!defined", SKIP_MARKER>>

\* some start marker line is followed by no marker line at all
UnterminatedSkip(lines) ==
    \E i \in 1..Len(lines) :
        /\ IsSkipStart(lines[i])
        /\ \A j \in (i + 1)..Len(lines) : ~LineIncludes(lines[j], SKIP_MARKER)

\* C8: when a skip start marker has no later end marker, cleanHeader does
\* not return normally (it raises instead).
C8_UnterminatedSkipIsFatal == UnterminatedSkip(cLines) => cStatus # "returned"

\* C8: the input with an unterminated start marker has been cleaned, the
\* lines after the marker are gone from the result and no error was raised
C8_SilentDiscard ==
    /\ cStatus = "returned"
    /\ UnterminatedSkip(cLines)
    /\ Len(cLines) > 1
    /\ IsSkipStart(cLines[1])
    /\ cOut = <<>>

IsMarkerLine(line) == LineIncludes(line, SKIP_MARKER)

MarkersBefore(lines, i) == Cardinality({j \in 1..(i - 1) : IsMarkerLine(lines[j])})

\* line s is a start marker: a marker line with an even number of marker
\* lines before it (markers alternate start, end, start, ...)
IsStartAt(lines, s) == IsMarkerLine(lines[s]) /\ MarkersBefore(lines, s) % 2 = 0

\* line i lies between a start marker line and the next marker line
InSkipRegion(lines, i) ==
    \E s \in 1..(i - 1) : \E e \in (i + 1)..Len(lines) :
        /\ IsStartAt(lines, s)
        /\ IsMarkerLine(lines[e])
        /\ \A j \in (s + 1)..(e - 1) : ~IsMarkerLine(lines[j])

IsDirective(line) == Trim(line) # <<>> /\ Head(Trim(line)) = "#"

IsExternC(line) == LineIncludes(line, "extern \"C\"")

\* the lines to keep: no marker line, not in a skip region, no directive, no
\* extern "C" line
ToKeep(lines, i) ==
    /\ ~IsMarkerLine(lines[i])
    /\ ~InSkipRegion(lines, i)
    /\ ~IsDirective(lines[i])
    /\ ~IsExternC(lines[i])

RECURSIVE KeptFrom(_, _)
KeptFrom(lines, i) ==
    IF i > Len(lines) THEN <<>>
    ELSE (IF ToKeep(lines, i) THEN <<deleteStrings(lines[i], EMPTY_DEFINES)>> ELSE <<>>)
         \o KeptFrom(lines, i + 1)

\* C19: the lines cleanHeader has kept when it returns are, in input order,
\* exactly the input lines that are no marker line, lie in no skip region,
\* are no directive and no extern "C" line (each without the deleted macro
\* tokens).
C19_KeptLines == cStatus = "returned" => cFrags = KeptFrom(cLines, 1)

\* the same for the inputs in which every start marker has its end marker
EveryStartHasEnd(lines) == Cardinality({j \in 1..Len(lines) : IsMarkerLine(lines[j])}) % 2 = 0

KeptLinesWhenPaired ==
    (cStatus = "returned" /\ EveryStartHasEnd(cLines)) => cFrags = KeptFrom(cLines, 1)

\* C19: of (void f();  #if !defined(WGPU_SKIP_PROCS)  void f();) only the
\* first line has been kept; the last line, which lies between no two
\* markers, is gone
C19_TailDropped ==
    /\ cStatus = "returned"
    /\ cLines = << <<"WGPU_EXPORT", "void", "f();">>,
                   <<"#", "if", "!defined", SKIP_MARKER>>,
                   <<"WGPU_EXPORT", "void", "f();">> >>
    /\ ToKeep(cLines, 3)
    /\ cFrags = << <<"void", "f();">> >>

\* ======================================================================
\* The emitted ChainedStruct class
\* ======================================================================

\* The Chainable structs of the Python program. A struct is identified by
\* the address of its chain member, which is never NULL.
Chainables == 1..MaxLinks

\* The lists a ChainedStruct can be constructed from: a Python list may hold
\* the same struct more than once.
ChainLists == UNION { [1..n -> Chainables] : n \in 0..MaxLinks }

\* ffi.addressof(link._chain)
addressof(link) == link

\* The list comprehension alone, without the NULL that ends the chain.
nextPtrsOpenEnded(chain) ==
    [i \in 1..(Len(chain) - 1) |-> addressof(chain[i + 1])]

\* next_ptrs = [ffi.addressof(link._chain) for link in chain[1:]] + [ffi.NULL]
nextPtrs(chain) ==
    [i \in 1..(Len(chain) - 1) |-> addressof(chain[i + 1])] \o <<NULL>>

\* Every struct is created by ffi.new, which zero-initialises it.
InitChain ==
    /\ chList = <<>>
    /\ chCdata = NULL
    /\ chNext = [c \in Chainables |-> NULL]
    /\ chIdx = 1
    /\ chPc = "idle"
    /\ ApiIdle
    /\ CleanIdle
    /\ StructIdle
    /\ FlagsIdle
    /\ WideIdle
    /\ CBIdle
    /\ HandleIdle

\* ChainedStruct(chain), up to the for loop. The structs of an earlier
\* ChainedStruct may be used again, with the pointers it left in them.
ChainConstruct ==
    /\ chPc \in {"idle", "done"}
    /\ \E chain \in ChainLists :
        /\ chList' = chain
        /\ IF Len(chain) = 0
           THEN /\ chCdata' = NULL
                /\ chPc' = "done"
           ELSE /\ chCdata' = addressof(chain[1])
                /\ chPc' = "link"
    /\ chIdx' = 1
    /\ UNCHANGED <<chNext, outsideChain>>

\* One turn of the for loop: chain[idx]._chain.next = ptr
ChainLinkStep ==
    /\ chPc = "link"
    /\ chIdx <= Len(nextPtrs(chList))
    /\ chNext' = [chNext EXCEPT ![chList[chIdx]] = nextPtrs(chList)[chIdx]]
    /\ chIdx' = chIdx + 1
    /\ UNCHANGED <<chList, chCdata, chPc, outsideChain>>

\* The for loop is exhausted and __init__ returns.
ChainDone ==
    /\ chPc = "link"
    /\ chIdx > Len(nextPtrs(chList))
    /\ chPc' = "done"
    /\ UNCHANGED <<chList, chCdata, chNext, chIdx, outsideChain>>

NextChain == ChainConstruct \/ ChainLinkStep \/ ChainDone

SpecChain == InitChain /\ [][NextChain]_vars

\* The list is linked in list order: head, next pointers, final NULL.
LinkedInListOrder ==
    /\ chCdata = (IF Len(chList) = 0 THEN NULL ELSE addressof(chList[1]))
    /\ \A i \in 1..(Len(chList) - 1) :
           chNext[chList[i]] = addressof(chList[i + 1])
    /\ Len(chList) > 0 => chNext[chList[Len(chList)]] = NULL

\* No struct occurs twice in the list.
Distinct(chain) ==
    \A i, j \in 1..Len(chain) : chain[i] = chain[j] => i = j

\* C15 as stated: once a ChainedStruct is constructed from any list of
\* Chainable structs, the head points to the first link, every link points
\* to the link after it in the list, and the last link's next is NULL.
C15_LinkedInListOrder ==
    chPc = "done" => LinkedInListOrder

\* C15 amended: the same, for a list of pairwise distinct structs.
C15_DistinctLinkedInListOrder ==
    (chPc = "done" /\ Distinct(chList)) => LinkedInListOrder

\* A ChainedStruct of three distinct structs, built from structs that an
\* earlier ChainedStruct had linked the other way round.
C15_Witness ==
    /\ chPc = "done"
    /\ chList = <<3, 1, 2>>
    /\ chCdata = 3
    /\ chNext = [c \in Chainables |-> IF c = 3 THEN 1 ELSE IF c = 1 THEN 2 ELSE NULL]

\* The empty ChainedStruct: a NULL head and no struct touched.
C15_EmptyChain ==
    /\ chPc = "done"
    /\ chList = <<>>
    /\ chCdata = NULL

\* A list that holds one struct twice: the struct has one next pointer, and
\* the last assignment to it wins.
C15_RepeatedLink ==
    /\ chPc = "done"
    /\ chList = <<1, 2, 1>>
    /\ chNext[1] = NULL
    /\ chNext[2] = 1

\* ======================================================================
\* ApiInfo.parse: the six extractors, one after the other
\* ======================================================================

\* new CFlags(cName, pyName, etype), as the registry holds it
CFlags(cName, pyName, etype) ==
    [Descriptor("CFlags", "enum", cName, pyName) EXCEPT !.etype = etype.cName]

\* new CFuncPointer(cName, pyName, argStr, ret)
CFuncPointer(cName, pyName, argStr, ret) ==
    [Descriptor("CFuncPointer", "opaque", cName, pyName) EXCEPT !.argStr = argStr, !.ret = ret]

\* new CallbackWrapper(fpointer)
CallbackWrapper(fpointer) ==
    [cls |-> "CallbackWrapper", ctype |-> Ref(fpointer), serial |-> 0]

\* The CFlags constructor sets etype.flagType, then types.set(cname, flags);
\* enumKey is the name under which the enum was found.
registerFlags(reg, enumType, enumKey) ==
    MapSet([reg EXCEPT ![MapIdx(reg, enumKey)].val.flagType =
                toPyName(enumType \o S_Flags, TRUE)],
           enumType \o S_Flags,
           CFlags(enumType \o S_Flags, toPyName(enumType \o S_Flags, TRUE),
                  MapGet(reg, enumKey)))

\* A findBitflags that finds no enum for any typedef
findBitflagNever(reg, enumType) == reg

\* A findBitflags without the second look-up, under the name that ends in Flag
findBitflagNoFallback(reg, enumType) ==
    IF MapHas(reg, enumType) /\ MapGet(reg, enumType).cls = "CEnum"
    THEN MapSet([reg EXCEPT ![MapIdx(reg, enumType)].val.flagType =
                     toPyName(enumType \o S_Flags, TRUE)],
                enumType \o S_Flags,
                [Descriptor("CFlags", "enum", enumType \o S_Flags,
                            toPyName(enumType \o S_Flags, TRUE)) EXCEPT !.etype = enumType])
    ELSE reg

\* ee !== undefined && ee instanceof CEnum
isEnumAt(reg, name) == MapHas(reg, name) /\ MapGet(reg, name).cls = "CEnum"

\* one match of findBitflags; enumType is what stands before "Flags"
findBitflag(reg, enumType) ==
    IF isEnumAt(reg, enumType) THEN registerFlags(reg, enumType, enumType)
    ELSE IF isEnumAt(reg, enumType \o S_Flag)
    THEN registerFlags(reg, enumType, enumType \o S_Flag)
    ELSE reg

\* _addCallbackType past _parseFuncReturn, whose outcome is r
callbackWithReturn(r, name, argStr) ==
    [r.api EXCEPT
        !.types = MapSet(@, name, CFuncPointer(name, toPyName(name, TRUE), argStr, r.ret)),
        !.wrappers = MapSet(@, S_cbwrap_prefix \o name,
                            CallbackWrapper(CFuncPointer(name, toPyName(name, TRUE),
                                                         argStr, r.ret)))]

\* _addCallbackType(name, argStr, returnType)
addCallbackType(api, name, argStr, returnType) ==
    callbackWithReturn(parseFuncReturn(api, returnType), name, argStr)

\* one match of findCallbackTypes
findCallbackType(api, name, argStr, returnType) ==
    IF ~EndsWith(name, S_Callback) THEN api
    ELSE addCallbackType(api, name, argStr, returnType)

(***************************************************************************)
(* The header handed to parse: a selection, in file order, of these        *)
(* declarations.  Declarations that use a type stand before the ones that  *)
(* declare it, and some names are declared twice (as when both branches of *)
(* a conditional, or two headers, carry the declaration).                  *)
(***************************************************************************)
ParsePool ==
    << Decl("struct", S_WGPUBufferDescriptor,
            << <<S_WGPUSType, S_config>>,
               <<S_WGPUSType \o S_Flags, S_size>>,
               <<S_WGPUNativeSType, S_descriptor>> >>, <<>>, <<>>),
       Decl("func", S_wgpuQueueSubmit, <<>>,
            << <<S_WGPUQueue, S_queue>>,
               <<S_WGPUBufferCallback, S_callback>>,
               <<S_void, S_star, S_userdata>> >>, <<S_void>>),
       Decl("enum", S_WGPUSType, <<E_X, E_Y>>, <<>>, <<>>),
       Decl("enum", S_WGPUNativeSType, <<E_DeviceExtras, E_NativeForce32>>, <<>>, <<>>),
       Decl("enum", S_WGPUSType, <<E_X, E_Y>>, <<>>, <<>>),
       Decl("enum", S_WGPUFeatureName \o S_Flag,
            << S_WGPUFeatureName \o S_Flag \o <<"_", "X", " ", "=", " ", "0", "x", "1">> >>,
            <<>>, <<>>),
       Decl("flags", S_WGPUFeatureName, <<>>, <<>>, <<>>),
       Decl("flags", S_WGPUSType, <<>>, <<>>, <<>>),
       Decl("opaque", S_WGPUQueue, <<>>, <<>>, <<>>),
       Decl("opaque", S_WGPUQueue, <<>>, <<>>, <<>>),
       Decl("callback", S_WGPUBufferCallback, <<>>,
            << <<S_WGPUQueue, S_queue>>, <<S_void, S_star, S_userdata>> >>, <<S_void>>),
       Decl("callback", S_WGPUProc, <<>>, << <<S_void>> >>, <<S_void>>),
       Decl("struct", S_WGPUBufferDescriptor,
            << <<S_WGPUFeatureName \o S_Flags, S_size>> >>, <<>>, <<>>) >>

InitParse ==
    /\ \E S \in SUBSET (1..Len(ParsePool)) : header = PickFrom(ParsePool, S, 1)
    /\ pc = "findEnums"
    /\ pos = 1
    /\ types = InitialTypes
    /\ wrappers = <<>>
    /\ looseFuncs = <<>>
    /\ pyFrags = <<>>
    /\ error = NoError
    /\ files = {}
    /\ lookups = <<>>
    /\ creates = <<>>
    /\ CleanIdle
    /\ StructIdle
    /\ FlagsIdle
    /\ ChainIdle
    /\ CBIdle
    /\ HandleIdle
    /\ WideIdle

\* an extractor step that touches the registry only
RegistryStep(reg) ==
    /\ types' = reg
    /\ pos' = pos + 1
    /\ lookups' = <<>>
    /\ UNCHANGED <<header, pc, wrappers, looseFuncs, pyFrags, error, files, creates>>

\* the outcome r of one match of findEnums
ParseEnumStep(r) ==
    /\ EnumStep(r)
    /\ lookups' = <<>>
    /\ UNCHANGED <<header, wrappers, looseFuncs, pyFrags, files, creates>>

\* this.findEnums(src)
ParseFindEnums ==
    /\ pc = "findEnums"
    /\ IF pos > Len(OfKind(header, "enum")) THEN Goto("findBitflags")
       ELSE ParseEnumStep(findEnum(types, OfKind(header, "enum")[pos].name,
                                   OfKind(header, "enum")[pos].body))
    /\ UNCHANGED outsideApi

\* this.findBitflags(src)
ParseFindBitflags ==
    /\ pc = "findBitflags"
    /\ IF pos > Len(OfKind(header, "flags")) THEN Goto("findOpaquePointers")
       ELSE RegistryStep(findBitflag(types, OfKind(header, "flags")[pos].name))
    /\ UNCHANGED outsideApi

\* this.findOpaquePointers(src)
ParseFindOpaquePointers ==
    /\ pc = "findOpaquePointers"
    /\ IF pos > Len(OfKind(header, "opaque")) THEN Goto("findCallbackTypes")
       ELSE RegistryStep(MapSet(types, OfKind(header, "opaque")[pos].name,
                                COpaque(OfKind(header, "opaque")[pos].name,
                                        toPyName(OfKind(header, "opaque")[pos].name, TRUE))))
    /\ UNCHANGED outsideApi

\* this.findCallbackTypes(src)
ParseFindCallbackTypes ==
    /\ pc = "findCallbackTypes"
    /\ IF pos > Len(OfKind(header, "callback")) THEN Goto("findConcreteStructs")
       ELSE /\ Commit(findCallbackType(Api, OfKind(header, "callback")[pos].name,
                                       OfKind(header, "callback")[pos].args,
                                       OfKind(header, "callback")[pos].ret))
            /\ pos' = pos + 1
            /\ UNCHANGED <<header, pc, pyFrags, error, files>>
    /\ UNCHANGED outsideApi

\* this.findConcreteStructs(src)
ParseFindConcreteStructs ==
    /\ pc = "findConcreteStructs"
    /\ IF pos > Len(OfKind(header, "struct")) THEN Goto("findExportedFunctions")
       ELSE ParseStep(addStruct(Api, OfKind(header, "struct")[pos].name,
                                OfKind(header, "struct")[pos].body))
    /\ UNCHANGED outsideApi

\* this.findExportedFunctions(src), after which parse returns
ParseFindExportedFunctions ==
    /\ pc = "findExportedFunctions"
    /\ IF pos > Len(OfKind(header, "func")) THEN Goto("parsed")
       ELSE ParseStep(addFunc(Api, OfKind(header, "func")[pos].name,
                              OfKind(header, "func")[pos].args,
                              OfKind(header, "func")[pos].ret))
    /\ UNCHANGED outsideApi

NextParse ==
    \/ ParseFindEnums
    \/ ParseFindBitflags
    \/ ParseFindOpaquePointers
    \/ ParseFindCallbackTypes
    \/ ParseFindConcreteStructs
    \/ ParseFindExportedFunctions

SpecParse == InitParse /\ [][NextParse]_vars

(***************************************************************************)
(* Properties of parse (SpecParse).                                        *)
(***************************************************************************)
Phases ==
    << "findEnums", "findBitflags", "findOpaquePointers", "findCallbackTypes",
       "findConcreteStructs", "findExportedFunctions", "parsed" >>

\* the kind of declaration each extractor matches
PhaseKinds == << "enum", "flags", "opaque", "callback", "struct", "func" >>

PhaseOf(p) == CHOOSE i \in 1..Len(Phases) : Phases[i] = p

\* The extractors run in the order of parse, each to the end of its matches.
InParseOrder ==
    (pc' # pc /\ pc' # "aborted") =>
        /\ pc \in { Phases[i] : i \in 1..6 }
        /\ pc' = Phases[PhaseOf(pc) + 1]
        /\ pos > Len(OfKind(header, PhaseKinds[PhaseOf(pc)]))

IsMergedEnum(d) == d.k = "enum" /\ MapHas(SPECIAL_MERGED_ENUMS, d.name)

\* the flags typedef d names an enum that the header declares, as NAME or NAMEFlag
HasItsEnum(h, d) ==
    \E i \in 1..Len(h) :
        /\ h[i].k = "enum"
        /\ ~IsMergedEnum(h[i])
        /\ h[i].name \in { d.name, d.name \o S_Flag }

\* the type name that the declaration d introduces
TypeNameOf(d) == IF d.k = "flags" THEN d.name \o S_Flags ELSE d.name

\* the enum, flags, opaque-handle and callback types that the header declares
DeclaredTypes(h) ==
    { TypeNameOf(h[i]) : i \in { j \in 1..Len(h) :
          \/ h[j].k \in {"enum", "flags", "opaque"}
          \/ h[j].k = "callback" /\ EndsWith(h[j].name, S_Callback) } }

\* the same without the merged extension enums and the flags that lack an enum
RegisteredTypes(h) ==
    { TypeNameOf(h[i]) : i \in { j \in 1..Len(h) :
          \/ h[j].k = "enum" /\ ~IsMergedEnum(h[j])
          \/ h[j].k = "flags" /\ HasItsEnum(h, h[j])
          \/ h[j].k = "opaque"
          \/ h[j].k = "callback" /\ EndsWith(h[j].name, S_Callback) } }

Resolving == pc \in {"findConcreteStructs", "findExportedFunctions"}

\* no lookup of the last step resolved a name of S to the sentinel
NoneUnknown(S) ==
    \A i \in 1..Len(lookups) :
        lookups[i][1] \in S => lookups[i][2] # Ref(UNKNOWN_TYPE)

\* C16 as stated: the extractors run in the order enums, bitflags, opaque
\* pointers, callback types, structs, exported functions, each to its end;
\* and while a struct's fields or a function's arguments are resolved, no
\* enum, flags, opaque-handle or callback type that the header declares
\* anywhere resolves to the unknown sentinel.
C16_OrderedAndAllKnown ==
    [][/\ InParseOrder
       /\ Resolving => NoneUnknown(DeclaredTypes(header))']_vars

\* C16 amended: the same order; what never resolves to the sentinel is every
\* opaque-handle and callback type, every enum that is not a merged
\* extension enum, and every flags type whose enum the header declares.
C16_OrderedAndRegisteredKnown ==
    [][/\ InParseOrder
       /\ Resolving => /\ RegisteredTypes(header) \subseteq MapKeys(types)
                       /\ NoneUnknown(RegisteredTypes(header))']_vars

\* A struct that stands first in the header, before the enum and the flags
\* typedef its fields use, has both fields resolved to the registered types.
C16_Witness ==
    /\ pc = "findConcreteStructs"
    /\ Len(header) > 0
    /\ header[1].k = "struct"
    /\ MapHas(types, S_WGPUSType)
    /\ \E i, j \in 1..Len(lookups) :
          /\ lookups[i] = <<S_WGPUSType, Ref(MapGet(types, S_WGPUSType))>>
          /\ lookups[i][2].cls = "CEnum"
          /\ lookups[j][1] = S_WGPUSType \o S_Flags
          /\ lookups[j][2].cls = "CFlags"

\* A function's arguments of a handle type and a callback type declared
\* after it resolve to the registered types.
C16_ArgumentsKnown ==
    /\ pc = "findExportedFunctions"
    /\ Len(header) > 0
    /\ header[1].k = "func"
    /\ \E i, j \in 1..Len(lookups) :
          /\ lookups[i][1] = S_WGPUQueue
          /\ lookups[i][2].cls = "COpaque"
          /\ lookups[j][1] = S_WGPUBufferCallback
          /\ lookups[j][2].cls = "CFuncPointer"

\* A field of the declared extension enum WGPUNativeSType, which was merged
\* and not registered, resolves to the sentinel.
C16_MergedEnumUnknown ==
    /\ pc = "findConcreteStructs"
    /\ \E d \in { header[i] : i \in 1..Len(header) } :
          d.k = "enum" /\ d.name = S_WGPUNativeSType
    /\ \E i \in 1..Len(lookups) :
          lookups[i] = <<S_WGPUNativeSType, Ref(UNKNOWN_TYPE)>>

\* A field of a flags type whose typedef found no enum resolves to the sentinel.
C16_FlagsWithoutEnumUnknown ==
    /\ pc = "findConcreteStructs"
    /\ \E d \in { header[i] : i \in 1..Len(header) } :
          d.k = "flags" /\ d.name = S_WGPUFeatureName
    /\ \E i \in 1..Len(lookups) :
          lookups[i] = <<S_WGPUFeatureName \o S_Flags, Ref(UNKNOWN_TYPE)>>

\* the declaration the running extractor is at, when it is at one
AtDecl ==
    /\ pc \in { Phases[i] : i \in 1..6 }
    /\ pos <= Len(OfKind(header, PhaseKinds[PhaseOf(pc)]))

CurrentDecl == OfKind(header, PhaseKinds[PhaseOf(pc)])[pos]

\* the extractor is at a declaration that it registers with this.types.set,
\* and the name is in the registry already
ReRegisters ==
    /\ AtDecl
    /\ CurrentDecl.k \in {"enum", "opaque", "struct"}
    /\ ~IsMergedEnum(CurrentDecl)
    /\ MapHas(types, CurrentDecl.name)

\* C11: a step that registers a name that is registered already leaves the
\* registry entry of the name, descriptor and accumulated state, as it was.
C11_ReRegistrationKeepsEntry ==
    [][ReRegisters =>
           MapGet(types', CurrentDecl.name) = MapGet(types, CurrentDecl.name)]_vars

\* WGPUSType is declared, the extension enum is merged into it, and WGPUSType
\* is declared again with the same body: the merged values are gone.
C11_MergedValuesLost ==
    /\ pc = "findBitflags"
    /\ OfKind(header, "enum") =
           << Decl("enum", S_WGPUSType, <<E_X, E_Y>>, <<>>, <<>>),
              Decl("enum", S_WGPUNativeSType, <<E_DeviceExtras, E_NativeForce32>>, <<>>, <<>>),
              Decl("enum", S_WGPUSType, <<E_X, E_Y>>, <<>>, <<>>) >>
    /\ Len(MapGet(types, S_WGPUSType).values) = 2

\* A struct name declared twice with different bodies: the registry holds
\* the fields of the second declaration.
C11_LastStructWins ==
    /\ pc = "findExportedFunctions"
    /\ Len(OfKind(header, "struct")) = 2
    /\ Len(MapGet(types, S_WGPUBufferDescriptor).fields) = 1

\* An opaque handle declared twice is registered as after the first time.
C11_HandleTwice ==
    /\ pc = "findCallbackTypes"
    /\ Len(OfKind(header, "opaque")) = 2
    /\ MapGet(types, S_WGPUQueue) = COpaque(S_WGPUQueue, toPyName(S_WGPUQueue, TRUE))

\* ======================================================================
\* convertEnumValuesToConstants on the whole range of 32-bit values
\* ======================================================================
(***************************************************************************)
(* A number of JavaScript whose magnitude may reach 2^32 - 1 and beyond,   *)
(* held as sign and two parts, hi * 65536 + lo with lo < 65536: the        *)
(* integers of the model checker end at 2^31 - 1.                          *)
(***************************************************************************)
Half == 65536

Wide(neg, hi, lo) == [neg |-> neg, hi |-> hi, lo |-> lo]

\* acc * base + d
WideStep(acc, base, d) ==
    Wide(FALSE, acc.hi * base + (acc.lo * base + d) \div Half, (acc.lo * base + d) % Half)

RECURSIVE ParseDigitsWide(_, _, _)
ParseDigitsWide(s, base, acc) ==
    IF s = <<>> THEN acc
    ELSE ParseDigitsWide(Tail(s), base, WideStep(acc, base, DigitVal(Head(s))))

\* Number(val), as Number above
NumberWide(val) ==
    IF val = <<>> THEN [finite |-> TRUE, n |-> Wide(FALSE, 0, 0)]
    ELSE IF IsHexLiteral(val)
    THEN [finite |-> TRUE, n |-> ParseDigitsWide(Drop(val, 2), 16, Wide(FALSE, 0, 0))]
    ELSE IF IsDecLiteral(val)
    THEN [finite |-> TRUE, n |-> ParseDigitsWide(val, 10, Wide(FALSE, 0, 0))]
    ELSE [finite |-> FALSE, n |-> Wide(FALSE, 0, 0)]

\* 2^32 - u for 0 < u < 2^32
Complement(u) ==
    IF u.lo = 0 THEN Wide(FALSE, (Half - u.hi) % Half, 0)
    ELSE Wide(FALSE, Half - 1 - u.hi, Half - u.lo)

\* ToUint32(w): w modulo 2^32
ToUint32(w) ==
    IF w.neg /\ (w.hi % Half # 0 \/ w.lo # 0)
    THEN Complement(Wide(FALSE, w.hi % Half, w.lo))
    ELSE Wide(FALSE, w.hi % Half, w.lo)

\* the signed reading of 32 bits: bit 31 makes the number negative
ToInt32(u) ==
    IF u.hi >= Half \div 2 THEN [Complement(u) EXCEPT !.neg = TRUE] ELSE u

\* A `|` that gives the unsigned reading of the 32 bits
BitOrUnsigned(a, b) ==
    Wide(FALSE, BitOr(ToUint32(a).hi, ToUint32(b).hi), BitOr(ToUint32(a).lo, ToUint32(b).lo))

\* a | b of JavaScript: both operands ToInt32, the result a signed 32-bit integer
BitOrWide(a, b) ==
    ToInt32(Wide(FALSE, BitOr(ToUint32(a).hi, ToUint32(b).hi),
                        BitOr(ToUint32(a).lo, ToUint32(b).lo)))

\* The lexer and the parser of eval, as above, on these numbers
RECURSIVE LexWide(_)
LexWide(s) ==
    IF s = <<>> THEN <<>>
    ELSE IF Head(s) = " " THEN LexWide(Tail(s))
    ELSE IF ~IsWordChar(Head(s))
    THEN << [t |-> Head(s), n |-> Wide(FALSE, 0, 0)] >> \o LexWide(Tail(s))
    ELSE << (IF NumberWide(Take(s, WordLen(s))).finite
             THEN [t |-> "num", n |-> NumberWide(Take(s, WordLen(s))).n]
             ELSE IF Take(s, WordLen(s)) \in {S_Infinity, S_NaN}
             THEN [t |-> "nonfinite", n |-> Wide(FALSE, 0, 0)]
             ELSE [t |-> "word", n |-> Wide(FALSE, 0, 0)]) >> \o LexWide(Drop(s, WordLen(s)))

Failed(at) == [ok |-> FALSE, n |-> Wide(FALSE, 0, 0), at |-> at, fin |-> TRUE]

RECURSIVE EvalExprWide(_, _)
CloseParenWide(toks, r) ==
    IF ~r.ok THEN r
    ELSE IF r.at <= Len(toks) /\ toks[r.at].t = ")" THEN [r EXCEPT !.at = @ + 1]
    ELSE Failed(r.at)

EvalTermWide(toks, at) ==
    IF at > Len(toks) THEN Failed(at)
    ELSE IF toks[at].t = "num" THEN [ok |-> TRUE, n |-> toks[at].n, at |-> at + 1, fin |-> TRUE]
    ELSE IF toks[at].t = "nonfinite"
    THEN [ok |-> TRUE, n |-> Wide(FALSE, 0, 0), at |-> at + 1, fin |-> FALSE]
    ELSE IF toks[at].t = "(" THEN CloseParenWide(toks, EvalExprWide(toks, at + 1))
    ELSE Failed(at)

OrIntoWide(left, r) ==
    IF ~r.ok THEN r ELSE [r EXCEPT !.n = BitOrWide(left, r.n), !.fin = TRUE]

EvalTailWide(toks, r) ==
    IF ~r.ok THEN r
    ELSE IF r.at <= Len(toks) /\ toks[r.at].t = "|"
    THEN OrIntoWide(r.n, EvalExprWide(toks, r.at + 1))
    ELSE r

EvalExprWide(toks, at) == EvalTailWide(toks, EvalTermWide(toks, at))

evalTokensWide(toks, r) ==
    [threw |-> ~r.ok \/ r.at <= Len(toks), n |-> r.n, finite |-> r.fin]

evalWide(val) == evalTokensWide(LexWide(val), EvalExprWide(LexWide(val), 1))

\* val.toString(16): the digits of the magnitude, "-" before a negative number
toString16(w) ==
    (IF w.neg THEN <<"-">> ELSE <<>>)
        \o (IF w.hi = 0 THEN HexChars(w.lo) ELSE HexChars(w.hi) \o pad(HexChars(w.lo), 4))

\* formatHexConstant(val)
formatHexConstantWide(val) == <<"0", "x">> \o pad(toString16(val), 8)

\* if (!isFinite(nVal)) nVal = 0
finiteOrZeroWide(e) ==
    [threw |-> e.threw, n |-> IF e.finite THEN e.n ELSE Wide(FALSE, 0, 0)]

\* nVal of one entry: [threw, n]
constantOfWide(nVal, val, parentName, entries) ==
    IF nVal.finite THEN [threw |-> FALSE, n |-> nVal.n]
    ELSE finiteOrZeroWide(evalWide(substituteSiblings(val, parentName, entries, 1)))

(***************************************************************************)
(* The enum bodies converted: WGPUSType with the entries A and C, each a   *)
(* literal, and a third entry D that is made of them.                      *)
(***************************************************************************)
Literals ==
    { <<"0">>,
      <<"0", "x", "1">>,
      <<"0", "x", "7", "F", "F", "F", "F", "F", "F", "F">>,
      <<"0", "x", "8", "0", "0", "0", "0", "0", "0", "0">>,
      <<"0", "x", "F", "F", "F", "F", "F", "F", "F", "F">>,
      <<"0", "x", "0", "0", "0", "0", "A", "B", "C", "D">>,
      <<"6", "5", "5", "3", "6">>,
      <<"4", "2", "9", "4", "9", "6", "7", "2", "9", "5">> }

NameOfA == S_WGPUSType \o <<"_", "A">>

NameOfC == S_WGPUSType \o <<"_", "C">>

Composites ==
    { NameOfA,
      NameOfA \o <<" ", "|", " ">> \o NameOfC,
      <<"(">> \o NameOfA \o <<" ", "|", " ", "0", "x", "1", ")", " ", "|", " ">> \o NameOfC }

EntryText(name, val) == name \o <<" ", "=", " ">> \o val

InitWide ==
    /\ \E a \in Literals, c \in Literals, d \in Composites :
          xEntries = enumEntries(S_WGPUSType,
                                 << EntryText(NameOfA, a), EntryText(NameOfC, c),
                                    EntryText(S_WGPUSType \o <<"_", "D">>, d) >>)
    /\ xPos = 1
    /\ xRet = <<>>
    /\ xPc = "convert"
    /\ ApiIdle
    /\ CleanIdle
    /\ StructIdle
    /\ FlagsIdle
    /\ ChainIdle
    /\ CBIdle
    /\ HandleIdle

\* the state after one iteration whose nVal is c
WideStepDone(c) ==
    IF c.threw THEN xPc' = "threw" /\ UNCHANGED <<xPos, xRet>>
    ELSE /\ xRet' = Append(xRet, [name |-> xEntries[xPos].name,
                                  val |-> formatHexConstantWide(c.n)])
         /\ xPos' = xPos + 1
         /\ xPc' = xPc

\* One iteration of the for loop of convertEnumValuesToConstants
ConvertEntry ==
    /\ xPc = "convert"
    /\ xPos <= Len(xEntries)
    /\ WideStepDone(constantOfWide(NumberWide(xEntries[xPos].val), xEntries[xPos].val,
                                   S_WGPUSType, xEntries))
    /\ UNCHANGED <<xEntries, outsideWide>>

\* return ret
ConvertReturn ==
    /\ xPc = "convert"
    /\ xPos > Len(xEntries)
    /\ xPc' = "returned"
    /\ UNCHANGED <<xEntries, xPos, xRet, outsideWide>>

NextWide == ConvertEntry \/ ConvertReturn

SpecWide == InitWide /\ [][NextWide]_vars

(***************************************************************************)
(* Properties of the conversion (SpecWide).                                *)
(***************************************************************************)
IsLiteralVal(val) == NumberWide(val).finite

\* The value the entry at i stands for: that of its literal; for D the value
\* of A, or the bitwise OR on 32 bits of the entries and literals it names.
LiteralOf(i) == NumberWide(xEntries[i].val).n

Denoted(i) ==
    IF IsLiteralVal(xEntries[i].val) THEN LiteralOf(i)
    ELSE IF xEntries[i].val = NameOfA THEN LiteralOf(1)
    ELSE IF xEntries[i].val = NameOfA \o <<" ", "|", " ">> \o NameOfC
    THEN BitOrUnsigned(LiteralOf(1), LiteralOf(2))
    ELSE BitOrUnsigned(BitOrUnsigned(LiteralOf(1), Wide(FALSE, 0, 1)), LiteralOf(2))

\* `0x` and the eight lowercase hexadecimal digits of w < 2^32
Hex8(w) == <<"0", "x">> \o pad(HexChars(w.hi), 4) \o pad(HexChars(w.lo), 4)

\* C24: every converted entry, literal or evaluated, with a value in
\* 0..0xFFFFFFFF has as its text `0x` and the eight lowercase hexadecimal
\* digits of that value.
C24_EightHexDigits ==
    \A i \in 1..Len(xRet) : xRet[i].val = Hex8(Denoted(i))

\* The texts are the stated ones for every literal, and for every evaluated
\* entry whose value is below 2^31.
EightHexDigitsBelowSignBit ==
    \A i \in 1..Len(xRet) :
        (IsLiteralVal(xEntries[i].val) \/ xEntries[i].val = NameOfA
            \/ Denoted(i).hi < Half \div 2)
           => xRet[i].val = Hex8(Denoted(i))

\* A = 0x80000000, C = 0x1, D = A | C: the text of D has a minus sign in it.
C24_NegativeText ==
    /\ xPc = "returned"
    /\ xEntries[1].val = <<"0", "x", "8", "0", "0", "0", "0", "0", "0", "0">>
    /\ xEntries[2].val = <<"0", "x", "1">>
    /\ xEntries[3].val = NameOfA \o <<" ", "|", " ">> \o NameOfC
    /\ xRet[1].val = <<"0", "x", "8", "0", "0", "0", "0", "0", "0", "0">>
    /\ xRet[3].val = <<"0", "x", "-", "7", "f", "f", "f", "f", "f", "f", "f">>

\* The literals 0xFFFFFFFF and 0x0000ABCD are normalized as stated.
LiteralsNormalized ==
    /\ xPc = "returned"
    /\ xEntries[1].val = <<"0", "x", "F", "F", "F", "F", "F", "F", "F", "F">>
    /\ xEntries[2].val = <<"0", "x", "0", "0", "0", "0", "A", "B", "C", "D">>
    /\ xRet[1].val = <<"0", "x", "f", "f", "f", "f", "f", "f", "f", "f">>
    /\ xRet[2].val = <<"0", "x", "0", "0", "0", "0", "a", "b", "c", "d">>

(***************************************************************************)
(* Properties of findBitflags (SpecParse).                                 *)
(***************************************************************************)
\* the step is one match of findBitflags
BitflagStep == pc = "findBitflags" /\ pos <= Len(OfKind(header, "flags"))

FlagsName == OfKind(header, "flags")[pos].name \o S_Flags

\* the name under which the enum of the typedef at pos is found; <<>> if none
EnumKeyOf(reg, enumType) ==
    IF isEnumAt(reg, enumType) THEN enumType
    ELSE IF isEnumAt(reg, enumType \o S_Flag) THEN enumType \o S_Flag
    ELSE <<>>

EnumKey == EnumKeyOf(types, OfKind(header, "flags")[pos].name)

\* the registry entries under other names than those of S are as they were
OthersUnchanged(S) ==
    /\ \A i \in 1..Len(types) :
           types[i].key \notin S => types'[i] = types[i]
    /\ \A i \in 1..Len(types') :
           types'[i].key \notin S => i <= Len(types)

\* C25: a bitflags typedef whose enum is found neither under <Name> nor under
\* <Name>Flag is skipped: the registry stays as it is and the loop goes on
\* to the next typedef.  A typedef whose enum is found registers a flags
\* type that references that enum, the enum's back-link names the flags
\* type, and nothing else changes.  When findBitflags is over every typedef
\* whose enum is registered has its flags type.
C25_SkippedOrLinked ==
    [][/\ BitflagStep =>
            /\ pos' = pos + 1
            /\ pc' = pc
            /\ IF EnumKey = <<>>
               THEN types' = types
               ELSE /\ MapHas(types', FlagsName)
                    /\ MapGet(types', FlagsName).cls = "CFlags"
                    /\ MapGet(types', FlagsName).etype = EnumKey
                    /\ MapGet(types', EnumKey) =
                          [MapGet(types, EnumKey) EXCEPT
                              !.flagType = toPyName(FlagsName, TRUE)]
                    /\ OthersUnchanged({FlagsName, EnumKey})
       /\ (pc = "findBitflags" /\ pc' # pc) =>
            \A i \in 1..Len(OfKind(header, "flags")) :
                EnumKeyOf(types, OfKind(header, "flags")[i].name) # <<>>
                   => MapHas(types, OfKind(header, "flags")[i].name \o S_Flags)
    ]_vars

\* WGPUFeatureNameFlags, whose enum is not declared, was skipped, and
\* WGPUSTypeFlags after it was registered and linked with WGPUSType.
C25_Witness ==
    /\ pc = "findOpaquePointers"
    /\ Len(OfKind(header, "flags")) = 2
    /\ MapHas(types, S_WGPUSType)
    /\ ~MapHas(types, S_WGPUFeatureName \o S_Flag)
    /\ ~MapHas(types, S_WGPUFeatureName \o S_Flags)
    /\ MapHas(types, S_WGPUSType \o S_Flags)
    /\ MapGet(types, S_WGPUSType \o S_Flags).etype = S_WGPUSType
    /\ MapGet(types, S_WGPUSType).flagType = toPyName(S_WGPUSType \o S_Flags, TRUE)

\* WGPUFeatureNameFlags found its enum under the name WGPUFeatureNameFlag.
FlagsOfSingularEnum ==
    /\ pc = "findOpaquePointers"
    /\ MapHas(types, S_WGPUFeatureName \o S_Flags)
    /\ MapGet(types, S_WGPUFeatureName \o S_Flags).etype = S_WGPUFeatureName \o S_Flag
    /\ MapGet(types, S_WGPUFeatureName \o S_Flag).flagType
          = toPyName(S_WGPUFeatureName \o S_Flags, TRUE)

(***************************************************************************)
(* prepFuncCall on the arguments of one exported function (SpecCall):      *)
(* _addFunc on the prototype, then emitFuncDef on the function, which is   *)
(* a member of WGPUBuffer when its first argument is one.                  *)
(***************************************************************************)
S_data == <<"d", "a", "t", "a">>

MaxArgs == 3

\* the arguments a prototype is made of: argStr.split(","), each split on " "
ArgPool ==
    { <<S_size_t, S_entryCount>>,
      <<S_WGPUBuffer, S_const, S_star, S_entries>>,
      <<S_uint32_t, S_const, S_star, S_items>>,
      <<S_WGPUProc, S_callback>>,
      <<S_void, S_star, S_userdata>>,
      <<S_void, S_const, S_star, S_data>>,
      <<S_size_t, S_size>>,
      <<S_WGPUBuffer, S_buffer>> }

InitCall ==
    /\ \E args \in SeqsUpTo(ArgPool, MaxArgs) :
          header = << Decl("func", S_wgpuPollEvents, <<>>, args, <<S_void>>) >>
    /\ pc = "addFunc"
    /\ pos = 1
    /\ types = TypesWithBuffer
    /\ wrappers = <<>>
    /\ looseFuncs = <<>>
    /\ pyFrags = <<>>
    /\ error = NoError
    /\ files = {}
    /\ lookups = <<>>
    /\ creates = <<>>
    /\ CleanIdle
    /\ StructIdle
    /\ FlagsIdle
    /\ ChainIdle
    /\ CBIdle
    /\ HandleIdle
    /\ WideIdle

\* the outcome r of _addFunc: it threw, or the function is registered
AddFuncDone(r) ==
    IF ~r.ok THEN Abort(r.api, [kind |-> "Unable to parse", names |-> <<>>])
    ELSE /\ Commit(r.api)
         /\ pc' = "emitFuncDef"
         /\ UNCHANGED <<header, pos, pyFrags, error, files>>

\* findExportedFunctions on the one prototype: this._addFunc(name, args, ret)
CallAddFunc ==
    /\ pc = "addFunc"
    /\ AddFuncDone(addFunc(Api, header[1].name, header[1].args, header[1].ret))
    /\ UNCHANGED outsideApi

\* the function is a loose one, or the one member function of WGPUBuffer
CallIsMember == looseFuncs = <<>>

CallFunc ==
    IF CallIsMember THEN MapGet(types, S_WGPUBuffer).funcs[1].val ELSE looseFuncs[1]

CallPyName ==
    IF CallIsMember THEN MapGet(types, S_WGPUBuffer).funcs[1].key
    ELSE toPyName(looseFuncs[1].name, FALSE)

\* emitFuncDef(api, name, func, isMemberFunc), from COpaque.emit for a member
\* function and from the loop over api.looseFuncs otherwise
CallEmitFuncDef ==
    /\ pc = "emitFuncDef"
    /\ pos <= 1
    /\ EmitStep(looseEmit(emitFuncDef(Api, CallPyName, CallFunc, CallIsMember)))
    /\ UNCHANGED outsideApi

NextCall == CallAddFunc \/ CallEmitFuncDef

SpecCall == InitCall /\ [][NextCall]_vars

(***************************************************************************)
(* Properties of prepFuncCall (SpecCall).                                  *)
(***************************************************************************)
\* emitFuncDef has returned the definition of the function
CallDone == pc = "emitFuncDef" /\ pos = 2 /\ pyFrags # <<>>

DeclaredArgs == CallFunc.args

TheDef == pyFrags[1].defs[1]

\* the first argument that is not self
FirstArg == IF CallIsMember THEN 2 ELSE 1

IsCountArg(a) == a.ctype.cName = S_size_t /\ EndsWith(a.name, S_Count)

ArgPrefix(a) == Take(a.name, Len(a.name) - Len(S_Count))

\* an argument that starts none of the pairs (count, array), (void pointer,
\* size) and (callback, userdata)
StartsNoPair(a) ==
    /\ ~IsCountArg(a)
    /\ a.name # S_callback
    /\ ~(a.ctype.cName = S_void /\ a.explicitPointer)

\* the python parameter and the call arguments that the fusion of the count
\* at i with the argument after it makes
FusedAt(i) ==
    /\ \E k \in 1..(Len(TheDef.callArgs) - 1) :
          /\ TheDef.callArgs[k] = <<DeclaredArgs[i + 1].name, "_staged._count">>
          /\ TheDef.callArgs[k + 1] = <<DeclaredArgs[i + 1].name, "_staged._ptr">>
    /\ \A k \in 1..Len(TheDef.pyArgs) : TheDef.pyArgs[k] # DeclaredArgs[i].name

\* the two arguments at i and i + 1 are two python parameters
LeftAsTwo(i) ==
    /\ \E k \in 1..(Len(TheDef.pyArgs) - 1) :
          /\ TheDef.pyArgs[k] = DeclaredArgs[i].name
          /\ TheDef.pyArgs[k + 1] = DeclaredArgs[i + 1].name
    /\ \A k \in 1..Len(TheDef.callArgs) : TheDef.callArgs[k][2] # "_staged._count"

\* the counts that the loop of prepFuncCall comes to with an argument after
\* them: no argument before them starts a pair
CountsReached ==
    { i \in FirstArg..(Len(DeclaredArgs) - 1) :
         /\ IsCountArg(DeclaredArgs[i])
         /\ \A j \in FirstArg..(i - 1) : StartsNoPair(DeclaredArgs[j]) }

\* C26: a size_t argument <prefix>Count is fused with the argument after it
\* only when the name of that argument is a plural of <prefix>; a pair that
\* does not conform is left as two arguments.
C26_FusedOnlyWhenPlural ==
    CallDone =>
        \A i \in CountsReached :
            IF isPluralOf(DeclaredArgs[i + 1].name, ArgPrefix(DeclaredArgs[i]))
            THEN FusedAt(i)
            ELSE LeftAsTwo(i)

\* (size_t entryCount, uint32_t const * items): items is no plural of entry,
\* and the two are fused into the one parameter items.
C26_FusedThoughNoPlural ==
    /\ CallDone
    /\ Len(DeclaredArgs) = 2
    /\ DeclaredArgs[1].name = S_entryCount
    /\ DeclaredArgs[2].name = S_items
    /\ TheDef.pyArgs = <<S_items>>
    /\ TheDef.callArgs = << <<S_items, "_staged._count">>, <<S_items, "_staged._ptr">> >>

\* (size_t entryCount, WGPUBuffer const * entries) is fused.
C26_PluralFused ==
    /\ CallDone
    /\ Len(DeclaredArgs) = 2
    /\ DeclaredArgs[1].name = S_entryCount
    /\ DeclaredArgs[2].name = S_entries
    /\ FusedAt(1)

\* the call argument at k passes the declared parameter at k
PassesParam(k) ==
    LET c == TheDef.callArgs[k]
    IN  IF c[2] = "._cdata" THEN k = 1 /\ CallIsMember
        ELSE IF c[2] = "_staged._count"
        THEN k < Len(DeclaredArgs) /\ IsCountArg(DeclaredArgs[k])
             /\ c[1] = DeclaredArgs[k + 1].name
        ELSE IF c[2] = "._size"
        THEN k > 1 /\ c[1] = DeclaredArgs[k - 1].name
             /\ DeclaredArgs[k].ctype.cName = S_size_t
        ELSE IF c[2] = "._userdata"
        THEN k > 1 /\ c[1] = DeclaredArgs[k - 1].name
             /\ DeclaredArgs[k].name = S_userdata
        ELSE c[1] = DeclaredArgs[k].name

\* C27: the native call passes each declared parameter once, in the order
\* of the declaration: it has as many arguments as the prototype has
\* parameters and its k-th argument is made from the k-th parameter.
C27_EveryParameterOnce ==
    CallDone =>
        /\ Len(TheDef.callArgs) = Len(DeclaredArgs)
        /\ \A k \in 1..Len(TheDef.callArgs) :
               k <= Len(DeclaredArgs) /\ PassesParam(k)

\* (WGPUProc callback), the last argument: the call has two arguments.
C27_CallbackLast ==
    /\ CallDone
    /\ Len(DeclaredArgs) = 1
    /\ DeclaredArgs[1].name = S_callback
    /\ TheDef.callArgs = << <<S_callback, "._ptr">>, <<S_callback, "._userdata">> >>

\* (WGPUProc callback, size_t size): size is not passed.
C27_ArgumentDropped ==
    /\ CallDone
    /\ Len(DeclaredArgs) = 2
    /\ DeclaredArgs[1].name = S_callback
    /\ DeclaredArgs[2].name = S_size
    /\ TheDef.pyArgs = <<S_callback>>
    /\ TheDef.callArgs = << <<S_callback, "._ptr">>, <<S_callback, "._userdata">> >>

\* the functions without a callback argument are called with one argument
\* for each declared parameter
NoCallbackEveryParameterOnce ==
    (CallDone /\ \A i \in 1..Len(DeclaredArgs) : DeclaredArgs[i].name # S_callback) =>
        /\ Len(TheDef.callArgs) = Len(DeclaredArgs)
        /\ \A k \in 1..Len(TheDef.callArgs) : PassesParam(k)

(***************************************************************************)
(* The emitted CBMap and the callback wrapper class of one callback type,  *)
(* run on the Python side (SpecCB): wrapper objects are made and removed,  *)
(* and the native side runs the raw callback with some userdata.           *)
(***************************************************************************)
MaxCallbacks == 3

INT_MAX == 2147483647

PyNone == "None"

\* the Python callables handed to the wrapper class
Callables == {"f", "g"}

\* A CBMap.add that takes the number of stored callbacks for the next index
CBMapAddLen(callbacks, index, cb) ==
    [callbacks |-> MapSet(callbacks, Len(callbacks), cb), index |-> index + 1,
     ret |-> Len(callbacks)]

\* CBMap.add(cb): [callbacks, index, ret]
CBMapAdd(callbacks, index, cb) ==
    [callbacks |-> MapSet(callbacks, index, cb), index |-> index + 1, ret |-> index]

\* CBMap.get(idx): self.callbacks.get(idx)
CBMapGet(callbacks, idx) ==
    IF MapHas(callbacks, idx) THEN MapGet(callbacks, idx) ELSE PyNone

\* CBMap.remove(idx)
CBMapRemove(callbacks, idx) ==
    IF MapHas(callbacks, idx) THEN SelectSeq(callbacks, LAMBDA e : e.key # idx)
    ELSE callbacks

\* _cast_userdata(ud): ffi.cast("int", ud), the low 32 bits of the pointer
\* as a signed int
castUserdata(ud) == IF ud <= INT_MAX THEN ud ELSE (ud - INT_MAX) - INT_MAX - 2

InitCB ==
    /\ CBIdle
    /\ ApiIdle
    /\ CleanIdle
    /\ StructIdle
    /\ FlagsIdle
    /\ ChainIdle
    /\ WideIdle
    /\ HandleIdle

\* the state after the add whose outcome is a
Wrapped(a) ==
    /\ cbCallbacks' = a.callbacks
    /\ cbIndex' = a.index
    /\ cbObjs' = Append(cbObjs, a.ret)

\* <pyName>(callback): self.index = _callback_map.add(callback)
CBWrap ==
    /\ Len(cbObjs) < MaxCallbacks
    /\ \E cb \in Callables : Wrapped(CBMapAdd(cbCallbacks, cbIndex, cb))
    /\ UNCHANGED <<cbRemoved, cbCalled, outsideCB>>

\* remove() of a wrapper object: _callback_map.remove(self.index)
CBRemove ==
    /\ \E k \in 1..Len(cbObjs) :
          /\ cbCallbacks' = CBMapRemove(cbCallbacks, cbObjs[k])
          /\ cbRemoved' = cbRemoved \cup {cbObjs[k]}
    /\ UNCHANGED <<cbIndex, cbObjs, cbCalled, outsideCB>>

\* the raw callback, run by the native side with the userdata ud: cb is the
\* Python callback it calls, None if it calls none
CBRaw ==
    /\ \E ud \in 0..MaxCallbacks :
          cbCalled' = << [idx |-> castUserdata(ud),
                          cb |-> CBMapGet(cbCallbacks, castUserdata(ud))] >>
    /\ UNCHANGED <<cbCallbacks, cbIndex, cbObjs, cbRemoved, outsideCB>>

NextCB == CBWrap \/ CBRemove \/ CBRaw

SpecCB == InitCB /\ [][NextCB]_vars

(***************************************************************************)
(* Properties of CBMap (SpecCB).                                           *)
(***************************************************************************)
Issued(objs) == { objs[k] : k \in 1..Len(objs) }

\* idx was removed, or no add has returned it
Stale(idx) == idx \in cbRemoved \/ idx \notin Issued(cbObjs)

\* C28: add never returns an index that an earlier add returned, also after
\* a remove; get on an index that was removed or never issued returns None;
\* and the raw callback run with such an index calls no Python callback.
C28_NoReuseAndStaleIsNone ==
    [][/\ Distinct(cbObjs')
       /\ \A idx \in 0..(MaxCallbacks + 1) :
             Stale(idx) => CBMapGet(cbCallbacks, idx) = PyNone
       /\ (cbCalled' # cbCalled /\ Stale(cbCalled'[1].idx)) => cbCalled'[1].cb = PyNone
    ]_vars

\* three wrapper objects were made, the one with index 0 was removed before
\* the third was made, and the raw callback run with userdata 0 called none
C28_Witness ==
    /\ cbObjs = <<0, 1, 2>>
    /\ cbRemoved = {0}
    /\ Len(cbCallbacks) = 2
    /\ cbCalled = << [idx |-> 0, cb |-> PyNone] >>

\* the raw callback called the callback of a wrapper object that is not removed
LiveCallbackCalled ==
    /\ cbCalled # <<>>
    /\ cbCalled[1].cb \in Callables
    /\ cbCalled[1].idx \in Issued(cbObjs) \ cbRemoved

(***************************************************************************)
(* The list wrapper helpers (SpecList): getListWrapper on the element      *)
(* types of the arrays that _addStruct and prepFuncCall come to, in order, *)
(* then the loop of the main script that emits api.wrappers.               *)
(***************************************************************************)
MaxLists == 3

\* the element types: registered C names
ElementPool == { S_uint32_t, S_uint64_t, S_float, S_double, S_WGPUBool, S_WGPUBuffer }

InitList ==
    /\ \E elems \in SeqsUpTo(ElementPool, MaxLists) :
          header = [i \in 1..Len(elems) |-> Decl("array", elems[i], <<>>, <<>>, <<>>)]
    /\ pc = "getListWrapper"
    /\ pos = 1
    /\ types = TypesWithBuffer
    /\ wrappers = <<>>
    /\ looseFuncs = <<>>
    /\ pyFrags = <<>>
    /\ error = NoError
    /\ files = {}
    /\ lookups = <<>>
    /\ creates = <<>>
    /\ CleanIdle
    /\ StructIdle
    /\ FlagsIdle
    /\ ChainIdle
    /\ CBIdle
    /\ HandleIdle
    /\ WideIdle

\* this.getListWrapper(ctype) on the element type of the next array
ListWrapperRequest ==
    /\ pc = "getListWrapper"
    /\ pos <= Len(header)
    /\ Commit(getListWrapper(Api, MapGet(types, header[pos].name)).api)
    /\ pos' = pos + 1
    /\ UNCHANGED <<header, pc, pyFrags, error, files>>
    /\ UNCHANGED outsideApi

\* the header is parsed
ListWrappersKnown ==
    /\ pc = "getListWrapper"
    /\ pos > Len(header)
    /\ Goto("emitWrappers")
    /\ UNCHANGED outsideApi

\* ListWrapper.emit(): the class statement, class <listName(ctype.pyName)>
listWrapperEmit(w) == Frag("class", listName(w.ctype.pyName), <<>>)

\* One iteration of the "Util wrapper types" loop: pyFrags.push(wrapper.emit(api))
ListWrapperEmit ==
    /\ pc = "emitWrappers"
    /\ pos <= Len(wrappers)
    /\ pyFrags' = Append(pyFrags, listWrapperEmit(wrappers[pos].val))
    /\ pos' = pos + 1
    /\ lookups' = <<>>
    /\ UNCHANGED <<header, pc, types, wrappers, looseFuncs, error, files, creates>>
    /\ UNCHANGED outsideApi

NextList == ListWrapperRequest \/ ListWrappersKnown \/ ListWrapperEmit

SpecList == InitList /\ [][NextList]_vars

(***************************************************************************)
(* Properties of the list wrapper helpers (SpecList).                      *)
(***************************************************************************)
\* C29: no two registered list wrapper helpers emit a class of the same
\* name: the classes in the output have pairwise different names.
C29_ClassNamesDiffer ==
    \A i, j \in 1..Len(pyFrags) : pyFrags[i].name = pyFrags[j].name => i = j

\* the helpers of uint32_t and of uint64_t both emitted the class of
\* listName("int")
C29_TwoIntLists ==
    /\ pc = "emitWrappers"
    /\ Len(wrappers) = 2
    /\ wrappers[1].val.ctype.cName = S_uint32_t
    /\ wrappers[2].val.ctype.cName = S_uint64_t
    /\ Len(pyFrags) = 2
    /\ pyFrags[1].name = listName(S_int)
    /\ pyFrags[2].name = listName(S_int)

\* one helper for each C name: a second request for a C name adds none
OneHelperForEachCName ==
    \A i, j \in 1..Len(wrappers) :
        wrappers[i].val.ctype.cName = wrappers[j].val.ctype.cName => i = j

\* element types of different python names get classes of different names
C29_DifferentPyNames ==
    /\ pc = "emitWrappers"
    /\ Len(pyFrags) = 3
    /\ C29_ClassNamesDiffer

(***************************************************************************)
(* One object of the class that COpaque.emit writes, on the Python side    *)
(* (SpecHandle): the constructor, then release(), leak() and invalidate()  *)
(* in any order, the object dropped at some time, and the garbage          *)
(* collector, which finalizes the cdata of ffi.gc once nothing refers to   *)
(* it and calls its destructor, lib.<release>, if it still has one.        *)
(***************************************************************************)
MaxCalls == 4

\* the address of the native object
HandleAddress == 1

\* An object: self._cdata, the state of the cdata that ffi.gc returned, the
\* calls of lib.<release> so far, and whether the call raised
HandleObj(cdata, gc, releases, raised) ==
    [cdata |-> cdata, gc |-> gc, releases |-> releases, raised |-> raised]

\* __init__(self, cdata, add_ref)
opaqueInit(cdata) ==
    IF cdata # NULL THEN HandleObj(cdata, "owned", 0, FALSE)
    ELSE HandleObj(NULL, "none", 0, FALSE)

\* A release() without ffi.gc(self._cdata, None)
opaqueReleaseOwned(cdata, gc, releases) ==
    IF cdata = NULL THEN HandleObj(cdata, gc, releases, FALSE)
    ELSE HandleObj(NULL, gc, releases + 1, FALSE)

\* release(self)
opaqueRelease(cdata, gc, releases) ==
    IF cdata = NULL THEN HandleObj(cdata, gc, releases, FALSE)
    ELSE HandleObj(NULL, "disowned", releases + 1, FALSE)

\* leak(self): ffi.gc(self._cdata, None), a TypeError on ffi.NULL, which no
\* ffi.gc has returned
opaqueLeak(cdata, gc, releases) ==
    IF cdata = NULL THEN HandleObj(cdata, gc, releases, TRUE)
    ELSE HandleObj(cdata, "disowned", releases, FALSE)

\* invalidate(self)
opaqueInvalidate(cdata, gc, releases) == HandleObj(NULL, gc, releases, FALSE)

\* isValid(self)
isValid(cdata) == cdata # NULL

InitHandle ==
    /\ \E cdata \in {NULL, HandleAddress}, add_ref \in BOOLEAN :
          /\ hCdata = opaqueInit(cdata).cdata
          /\ hGc = opaqueInit(cdata).gc
          /\ hRefs = IF cdata # NULL /\ add_ref THEN 1 ELSE 0
    /\ hReleases = 0
    /\ hTrace = <<>>
    /\ hRaised = FALSE
    /\ ApiIdle
    /\ CleanIdle
    /\ StructIdle
    /\ FlagsIdle
    /\ ChainIdle
    /\ WideIdle
    /\ CBIdle

Dropped == hTrace # <<>> /\ hTrace[Len(hTrace)] = "del"

\* the state after the method named op, whose outcome is o
Called(op, o) ==
    /\ Len(hTrace) < MaxCalls
    /\ ~Dropped
    /\ hTrace' = Append(hTrace, op)
    /\ hCdata' = o.cdata
    /\ hGc' = o.gc
    /\ hReleases' = o.releases
    /\ hRaised' = o.raised
    /\ UNCHANGED <<hRefs, outsideHandle>>

HandleRelease == Called("release", opaqueRelease(hCdata, hGc, hReleases))

HandleLeak == Called("leak", opaqueLeak(hCdata, hGc, hReleases))

HandleInvalidate == Called("invalidate", opaqueInvalidate(hCdata, hGc, hReleases))

\* the last reference to the object goes
HandleDel == Called("del", HandleObj(hCdata, hGc, hReleases, FALSE))

\* the cdata of ffi.gc is finalized: nothing refers to it once self._cdata
\* is ffi.NULL or the object is gone
HandleCollect ==
    /\ hGc \in {"owned", "disowned"}
    /\ hCdata = NULL \/ Dropped
    /\ hGc' = "collected"
    /\ hReleases' = IF hGc = "owned" THEN hReleases + 1 ELSE hReleases
    /\ UNCHANGED <<hCdata, hRefs, hTrace, hRaised, outsideHandle>>

NextHandle ==
    HandleRelease \/ HandleLeak \/ HandleInvalidate \/ HandleDel \/ HandleCollect

SpecHandle == InitHandle /\ [][NextHandle]_vars

(***************************************************************************)
(* Properties of the opaque handle class (SpecHandle).                     *)
(***************************************************************************)
ReleaseCalled == hTrace' = Append(hTrace, "release")

HasCall(trace, op) == \E k \in 1..Len(trace) : trace[k] = op

\* C30: whatever the order of release(), leak() and invalidate(), the
\* native release function is called at most once in total; release() on a
\* valid object, leaked or not, calls it and does not raise; once release()
\* has been called isValid() is false, and a later release() changes
\* nothing.
C30_ReleasedAtMostOnce ==
    [][/\ hReleases' <= 1
       /\ HasCall(hTrace', "release") => ~isValid(hCdata')
       /\ ReleaseCalled =>
            /\ ~hRaised'
            /\ IF isValid(hCdata)
               THEN hReleases' = hReleases + 1
               ELSE hReleases' = hReleases /\ hGc' = hGc /\ hCdata' = hCdata
    ]_vars

\* leak(), then release() on the leaked object, which called the native
\* release, then a release() that did nothing, and the cdata collected
C30_Witness ==
    /\ hTrace = <<"leak", "release", "release">>
    /\ hReleases = 1
    /\ hGc = "collected"
    /\ ~isValid(hCdata)

\* invalidate() on an object that was not leaked, then release(): the one
\* native release is that of the collector
ReleasedByCollector ==
    /\ hTrace = <<"invalidate", "release">>
    /\ hGc = "collected"
    /\ hReleases = 1

\* leak() on an object that is not valid raised
LeakRaised == hRaised /\ hTrace[Len(hTrace)] = "leak" /\ HasCall(hTrace, "release")

====
